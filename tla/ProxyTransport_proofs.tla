------------------------ MODULE ProxyTransport_proofs ------------------------
(***************************************************************************)
(* Proofs about module ProxyTransport, for any number of callers, pings and *)
(* any capacity of the sockets: the transport implements Exchange, and its  *)
(* safety invariants hold.                                                  *)
(***************************************************************************)
EXTENDS ProxyTransport, TLAPS, SequenceTheorems, FiniteSetTheorems

-----------------------------------------------------------------------------
(* The inductive invariant *)

Requests == [id : Nat, of : Senders]
Answers  == [id : Nat, of : Senders, size : {0, 1}]
Headers  == [part : {"header"}, id : Nat, size : {0, 1}]
Payloads == [part : {"payload"}, of : Senders]

Types ==
  /\ running \in BOOLEAN /\ socket \in BOOLEAN /\ broken \in BOOLEAN
  /\ counter \in Nat
  /\ requests \in [DOMAIN requests -> Senders] /\ DOMAIN requests \subseteq 1..counter
  /\ channel \in Seq(Requests) /\ up \in Seq(Requests) /\ pool \in Seq(Requests)
  /\ replies \in Seq(Answers) /\ down \in Seq(Headers \cup Payloads)
  /\ pc \in [Senders -> {"idle", "queued", "waiting", "done"}]
  /\ promise \in [Senders -> Errors \cup Senders \cup {None}]
  /\ answer \in [Senders -> Errors \cup Senders \cup {None}]
  /\ sender \in Requests \cup {None, Done}
  /\ receiver \in Answers \cup {None, Done}
  /\ writer \in Answers \cup {None}
  /\ executed \in [Callers -> {0, 1}]
  /\ \A k \in DOMAIN pool : pool[k].of \in Callers

\* The transport runs until its socket is closed or response_receive ends.
Alive == running <=> socket /\ receiver # Done

\* Where an id is, on its way from the channel to response_receive.
Ids(s)  == {s[k].id : k \in DOMAIN s}
Held(x) == IF x \in {None, Done} THEN {} ELSE {x.id}
Heads   == {down[k].id : k \in {j \in DOMAIN down : down[j].part = "header"}}
Stages  == << Ids(channel), Held(sender), Ids(up), Ids(pool), Ids(replies), Held(writer),
              Heads, Held(receiver) >>

Apart(S) == \A j, k \in 1..8 : j # k => S[j] \cap S[k] = {}

Distinct(s) == \A j, k \in DOMAIN s : s[j].id = s[k].id => j = k
DistinctHeads ==
  \A j, k \in DOMAIN down :
    down[j].part = "header" /\ down[k].part = "header" /\ down[j].id = down[k].id => j = k

\* An id is in one place at a time, and none is larger than the counter.
OnePlace ==
  /\ Apart(Stages)
  /\ Distinct(channel) /\ Distinct(up) /\ Distinct(pool) /\ Distinct(replies) /\ DistinctHeads
  /\ \A j \in 1..8 : Stages[j] \subseteq 1..counter

\* While the transport runs, whoever is on the way is registered under its id, except
\* for the entry that response_receive has taken out.
Elems(s)  == {s[k] : k \in DOMAIN s}
Only(x)   == IF x \in {None, Done} THEN {} ELSE {x}
Travelling ==
  Elems(channel) \cup Only(sender) \cup Elems(up) \cup Elems(pool) \cup Elems(replies) \cup Only(writer)

Registered ==
  running =>
    /\ \A r \in Travelling : r.id \in DOMAIN requests /\ requests[r.id] = r.of
    /\ Heads \subseteq DOMAIN requests
    /\ Held(receiver) \cap DOMAIN requests = {}

\* While the transport runs, headers and payloads alternate as the sizes say, from
\* where response_receive is; each payload is that of its header's caller.
Stream ==
  running =>
    /\ \A k \in 1..Len(down) - 1 :
         IF down[k].part = "header" /\ down[k].size = 1
         THEN down[k + 1].part = "payload" /\ down[k + 1].of = requests[down[k].id]
         ELSE down[k + 1].part = "header"
    /\ ~broken /\ down # << >> =>
         ~(down[Len(down)].part = "header" /\ down[Len(down)].size = 1)
    /\ IF receiver # None /\ receiver.size = 1
       THEN /\ ~broken => down # << >>
            /\ down # << >> => down[1].part = "payload" /\ down[1].of = receiver.of
       ELSE down # << >> => down[1].part = "header"

\* Who is registered waits, with nothing in its future and under no other id; who waits
\* with nothing in its future is registered, or response_receive has its entry.
Registry ==
  /\ ~running => requests = NoRequests /\ channel = << >>
  /\ \A i \in DOMAIN requests : pc[requests[i]] \in {"queued", "waiting"} /\ promise[requests[i]] = None
  /\ \A i, j \in DOMAIN requests : requests[i] = requests[j] => i = j
  /\ running /\ receiver # None =>
       /\ pc[receiver.of] \in {"queued", "waiting"} /\ promise[receiver.of] = None
       /\ \A i \in DOMAIN requests : requests[i] # receiver.of
  /\ running => \A c \in Senders : pc[c] \in {"idle", "done"} => promise[c] = None
  /\ \A k \in DOMAIN channel : pc[channel[k].of] = "queued"
  /\ \A j, k \in DOMAIN channel : channel[j].of = channel[k].of => j = k
  /\ \A c \in Senders : pc[c] \in {"queued", "waiting"} /\ promise[c] = None =>
       (\E i \in DOMAIN requests : requests[i] = c) \/ (receiver \notin {None, Done} /\ receiver.of = c)

\* A request that has not been executed is in one place; an answer belongs to a request
\* that has been.
Unexecuted == Elems(channel) \cup Only(sender) \cup Elems(up) \cup Elems(pool)

Once ==
  /\ \A r \in Unexecuted : r.of \in Callers => executed[r.of] = 0 /\ pc[r.of] # "idle"
  /\ \A r, s \in Unexecuted : r.of \in Callers /\ r.of = s.of => r.id = s.id
  /\ \A r \in Elems(replies) \cup Only(writer) \cup Only(receiver) : r.of \in Callers => executed[r.of] = 1
  /\ running => \A i \in Heads : requests[i] \in Callers => executed[requests[i]] = 1
  /\ \A c \in Callers : executed[c] = 1 => pc[c] # "idle"

\* What a caller has been or will be told.
Told ==
  \A c \in Callers :
    /\ promise[c] \in Errors \cup {c, None}
    /\ promise[c] = c => executed[c] = 1
    /\ pc[c] # "done" => answer[c] = None
    /\ pc[c] = "idle" => promise[c] = None

TransportInv ==
  /\ Types /\ Alive /\ OnePlace /\ Registered /\ Stream /\ Registry /\ Once /\ Told
  /\ NoneUnanswered

-----------------------------------------------------------------------------
(* Sequences of records with ids *)

LEMMA EmptyIds == Ids(<< >>) = {} /\ Elems(<< >>) = {} /\ Distinct(<< >>)
BY DEF Ids, Elems, Distinct

LEMMA AppendIds ==
  ASSUME NEW S, NEW s \in Seq(S), NEW e \in S
  PROVE  /\ Append(s, e) \in Seq(S)
         /\ Ids(Append(s, e)) = Ids(s) \cup {e.id}
         /\ Elems(Append(s, e)) = Elems(s) \cup {e}
         /\ Distinct(s) /\ e.id \notin Ids(s) => Distinct(Append(s, e))
<1>1. /\ Append(s, e) \in Seq(S)
      /\ DOMAIN s = 1..Len(s) /\ DOMAIN Append(s, e) = 1..(Len(s) + 1) /\ Len(s) \in Nat
      /\ \A k \in 1..Len(s) : Append(s, e)[k] = s[k]
      /\ Append(s, e)[Len(s) + 1] = e
  BY AppendProperties, LenProperties
<1> DEFINE t == Append(s, e)
<1> HIDE DEF t
<1>2. Elems(t) = Elems(s) \cup {e}
  BY <1>1 DEF Elems, t
<1>3. Ids(t) = Ids(s) \cup {e.id}
  BY <1>1 DEF Ids, t
<1>4. ASSUME Distinct(s), e.id \notin Ids(s), NEW j \in DOMAIN t, NEW k \in DOMAIN t, t[j].id = t[k].id
      PROVE  j = k
  <2>1. \A i \in 1..Len(s) : s[i].id # e.id
    BY <1>1, <1>4 DEF Ids
  <2>2. CASE j \in 1..Len(s) /\ k \in 1..Len(s)
    BY <1>1, <1>4, <2>2 DEF t, Distinct
  <2>3. CASE j = Len(s) + 1 /\ k # Len(s) + 1
    BY <1>1, <1>4, <2>1, <2>3 DEF t
  <2>4. CASE j # Len(s) + 1 /\ k = Len(s) + 1
    BY <1>1, <1>4, <2>1, <2>4 DEF t
  <2>5. QED
    BY <1>1, <2>2, <2>3, <2>4 DEF t
<1>5. QED
  BY <1>1, <1>2, <1>3, <1>4 DEF t, Distinct

LEMMA TailIds ==
  ASSUME NEW S, NEW s \in Seq(S), s # << >>
  PROVE  /\ Tail(s) \in Seq(S) /\ Head(s) \in S /\ Head(s) \in Elems(s) /\ Head(s).id \in Ids(s)
         /\ Ids(s) = Ids(Tail(s)) \cup {Head(s).id}
         /\ Elems(s) = Elems(Tail(s)) \cup {Head(s)}
         /\ Distinct(s) => Distinct(Tail(s)) /\ Head(s).id \notin Ids(Tail(s))
<1> DEFINE t == Tail(s)
<1>1. /\ t \in Seq(S) /\ Head(s) = s[1] /\ Head(s) \in S /\ Len(s) \in Nat \ {0}
      /\ DOMAIN s = 1..Len(s) /\ DOMAIN t = 1..(Len(s) - 1)
      /\ \A k \in 1..(Len(s) - 1) : t[k] = s[k + 1]
  BY HeadTailProperties, LenProperties, EmptySeq
<1> HIDE DEF t
<1>2. \A k \in DOMAIN s : k = 1 \/ (k - 1 \in DOMAIN t /\ t[k - 1] = s[k])
  BY <1>1
<1>3. \A k \in DOMAIN t : k + 1 \in DOMAIN s /\ t[k] = s[k + 1] /\ k + 1 # 1
  BY <1>1
<1>4. 1 \in DOMAIN s
  BY <1>1
<1>5. Elems(s) = Elems(t) \cup {Head(s)}
  BY <1>1, <1>2, <1>3, <1>4 DEF Elems
<1>6. Ids(s) = Ids(t) \cup {Head(s).id}
  <2>1. ASSUME NEW k \in DOMAIN s  PROVE  s[k].id \in Ids(t) \cup {s[1].id}
    BY <1>2, <2>1 DEF Ids
  <2>2. ASSUME NEW k \in DOMAIN t  PROVE  t[k].id \in Ids(s)
    BY <1>3, <2>2 DEF Ids
  <2>3. s[1].id \in Ids(s)
    BY <1>4 DEF Ids
  <2>4. Ids(s) \subseteq Ids(t) \cup {s[1].id}
    BY <2>1 DEF Ids
  <2>5. Ids(t) \subseteq Ids(s)
    BY <2>2 DEF Ids
  <2>6. QED
    BY <1>1, <2>3, <2>4, <2>5
<1>7. ASSUME Distinct(s)
      PROVE  Distinct(t) /\ Head(s).id \notin Ids(t)
  <2>1. Distinct(t)
    BY <1>1, <1>3, <1>7 DEF Distinct
  <2>2. \A k \in DOMAIN t : t[k].id # s[1].id
    BY <1>3, <1>4, <1>7 DEF Distinct
  <2>3. QED
    BY <1>1, <2>1, <2>2 DEF Ids
<1>8. Head(s) \in Elems(s) /\ Head(s).id \in Ids(s)
  BY <1>5, <1>6
<1>9. QED
  BY <1>1, <1>5, <1>6, <1>7, <1>8 DEF t

LEMMA PrefixIds ==
  ASSUME NEW S, NEW s \in Seq(S), NEW n \in 0..Len(s)
  PROVE  /\ SubSeq(s, 1, n) \in Seq(S) /\ Len(SubSeq(s, 1, n)) = n
         /\ DOMAIN SubSeq(s, 1, n) = 1..n /\ 1..n \subseteq DOMAIN s
         /\ \A k \in 1..n : SubSeq(s, 1, n)[k] = s[k]
         /\ Ids(SubSeq(s, 1, n)) \subseteq Ids(s) /\ Elems(SubSeq(s, 1, n)) \subseteq Elems(s)
         /\ Distinct(s) => Distinct(SubSeq(s, 1, n))
<1> DEFINE t == SubSeq(s, 1, n)
<1>1. DOMAIN s = 1..Len(s) /\ Len(s) \in Nat /\ n \in Nat /\ \A i \in 1..n : s[i] \in S
  BY LenProperties, ElementOfSeq
<1>2. t \in Seq(S) /\ Len(t) = n /\ \A i \in 1..n : t[i] = s[i]
  BY <1>1, SubSeqProperties
<1>3. DOMAIN t = 1..n
  BY <1>2, LenProperties
<1> HIDE DEF t
<1>4. QED
  BY <1>1, <1>2, <1>3 DEF Ids, Elems, Distinct, t

-----------------------------------------------------------------------------
(* Ids move from stage to stage *)

LEMMA Shrink ==
  ASSUME NEW S, NEW T, Apart(S), \A k \in 1..8 : T[k] \subseteq S[k]
  PROVE  Apart(T)
BY DEF Apart

LEMMA Move ==
  ASSUME NEW S, NEW T, Apart(S), NEW j \in 1..8, NEW m \in 1..8, j # m, NEW x \in S[j], x \notin T[j],
         \A k \in 1..8 \ {m} : T[k] \subseteq S[k], T[m] \subseteq S[m] \cup {x}
  PROVE  Apart(T)
<1>1. \A k \in 1..8 : k # j => x \notin S[k]
  BY DEF Apart
<1>2. \A k \in 1..8 : k # m => x \notin T[k]
  BY <1>1
<1>3. \A k \in 1..8 : k # m => T[m] \cap T[k] = {}
  BY <1>2 DEF Apart
<1>4. QED
  BY <1>3 DEF Apart

LEMMA Enter ==
  ASSUME NEW S, NEW T, Apart(S), NEW x, \A k \in 1..8 : x \notin S[k],
         \A k \in 1..8 \ {1} : T[k] \subseteq S[k], T[1] \subseteq S[1] \cup {x}
  PROVE  Apart(T)
<1>1. \A k \in 1..8 : k # 1 => T[1] \cap T[k] = {}
  BY DEF Apart
<1>2. QED
  BY <1>1 DEF Apart

LEMMA StagesAre ==
  /\ Stages[1] = Ids(channel) /\ Stages[2] = Held(sender) /\ Stages[3] = Ids(up) /\ Stages[4] = Ids(pool)
  /\ Stages[5] = Ids(replies) /\ Stages[6] = Held(writer) /\ Stages[7] = Heads /\ Stages[8] = Held(receiver)
  /\ Stages'[1] = Ids(channel') /\ Stages'[2] = Held(sender') /\ Stages'[3] = Ids(up') /\ Stages'[4] = Ids(pool')
  /\ Stages'[5] = Ids(replies') /\ Stages'[6] = Held(writer') /\ Stages'[7] = Heads' /\ Stages'[8] = Held(receiver')
BY DEF Stages

LEMMA Eight == \A k \in 1..8 : k = 1 \/ k = 2 \/ k = 3 \/ k = 4 \/ k = 5 \/ k = 6 \/ k = 7 \/ k = 8
OBVIOUS

-----------------------------------------------------------------------------
(* What is kept by steps that leave most of the state alone *)

LEMMA HeldIn ==
  /\ \A x \in Requests \cup {None, Done} : x \notin {None, Done} => x \in Requests /\ Held(x) = {x.id} /\ Only(x) = {x}
  /\ \A x \in Answers \cup {None, Done} : x \notin {None, Done} => x \in Answers /\ Held(x) = {x.id} /\ Only(x) = {x}
  /\ Held(None) = {} /\ Held(Done) = {} /\ Only(None) = {} /\ Only(Done) = {}
BY DEF Held, Only

\* The records of callers and of answers are neither None nor Done.
LEMMA Apartness ==
  /\ \A r \in Requests : r # Done
  /\ \A r \in Answers : r # Done /\ r # None
<1>1. ASSUME NEW r \in Requests  PROVE  r # Done
  <2>1. DOMAIN r = {"id", "of"}
    BY DEF Requests
  <2>2. DOMAIN Done = {"id"}
    BY DEF Done
  <2>3. QED
    BY <2>1, <2>2
<1>2. ASSUME NEW r \in Answers  PROVE  r # Done
  <2>1. DOMAIN r = {"id", "of", "size"}
    BY DEF Answers
  <2>2. DOMAIN Done = {"id"}
    BY DEF Done
  <2>3. QED
    BY <2>1, <2>2
<1>3. ASSUME NEW r \in Answers  PROVE  r # None
  BY NoneAssumption DEF Answers
<1>4. QED
  BY <1>1, <1>2, <1>3

\* The answers of the server and the entry of response_receive have ids and owners.
LEMMA Placed ==
  ASSUME Types
  PROVE  /\ \A r \in Unexecuted : r.id \in Nat /\ r.of \in Senders
         /\ \A r \in Travelling : r.id \in Nat /\ r.of \in Senders
         /\ Unexecuted \subseteq Travelling
<1>1. \A r \in Requests \cup Answers : r.id \in Nat /\ r.of \in Senders
  BY DEF Requests, Answers
<1>2. \A s \in Seq(Requests) : Elems(s) \subseteq Requests
  BY ElementOfSeq, LenProperties DEF Elems
<1>3. \A s \in Seq(Answers) : Elems(s) \subseteq Answers
  BY ElementOfSeq, LenProperties DEF Elems
<1>4. Only(sender) \subseteq Requests /\ Only(writer) \subseteq Answers
  BY DEF Types, Only
<1>5. Travelling \subseteq Requests \cup Answers
  BY <1>2, <1>3, <1>4 DEF Types, Travelling
<1>6. Unexecuted \subseteq Travelling
  BY DEF Travelling, Unexecuted
<1>7. QED
  BY <1>1, <1>5, <1>6

-----------------------------------------------------------------------------
(* Steps of the callers *)

LEMMA AskStep ==
  ASSUME TransportInv, NEW c \in Senders, Ask(c)
  PROVE  TransportInv'
<1>1. UNCHANGED <<running, socket, promise, sender, receiver, listener, inflight, pool, replies, writer,
                  executed, up, down, broken>>
  BY DEF Ask, server, net
<1>2. pc[c] = "idle" /\ pc \in [Senders -> {"idle", "queued", "waiting", "done"}]
  BY DEF Ask, TransportInv, Types
<1>3. Alive' /\ NoneUnanswered'
  BY <1>1 DEF TransportInv, Alive, NoneUnanswered
<1>4. CASE ~running
  <2>1. /\ UNCHANGED <<counter, requests, channel>>
        /\ pc' = [pc EXCEPT ![c] = "done"] /\ answer' = [answer EXCEPT ![c] = EAGAIN]
    BY <1>4 DEF Ask
  <2>2. Types'
    BY <1>1, <1>2, <2>1 DEF TransportInv, Types, Errors
  <2>3. OnePlace' /\ Registered' /\ Stream'
    BY <1>1, <1>4, <2>1 DEF TransportInv, OnePlace, Stages, Heads, DistinctHeads, Registered, Stream
  <2>4. Registry'
    BY <1>1, <1>2, <1>4, <2>1 DEF TransportInv, Registry, NoRequests
  <2>5. Once'
    BY <1>1, <1>2, <1>4, <2>1, Placed DEF TransportInv, Once, Unexecuted, Heads, Types
  <2>6. Told'
    BY <1>1, <1>2, <2>1 DEF TransportInv, Told, Senders, Types
  <2>7. QED
    BY <1>3, <2>2, <2>3, <2>4, <2>5, <2>6 DEF TransportInv
<1>5. CASE running
  <2> DEFINE id == counter + 1
             r == [id |-> id, of |-> c]
  <2>1. /\ counter' = id /\ requests' = Put(requests, id, c) /\ channel' = Append(channel, r)
        /\ pc' = [pc EXCEPT ![c] = "queued"] /\ answer' = answer
    BY <1>5 DEF Ask
  <2>2. counter \in Nat /\ id \in Nat /\ id # counter /\ 1..counter \subseteq 1..id /\ id \in 1..id
        /\ id \notin 1..counter
    BY DEF TransportInv, Types
  <2>3. r \in Requests /\ r.id = id /\ r.of = c
    BY <2>2 DEF Requests
  <2> HIDE DEF r, id
  <2>4. /\ channel' \in Seq(Requests) /\ Ids(channel') = Ids(channel) \cup {id}
        /\ Elems(channel') = Elems(channel) \cup {r}
        /\ Distinct(channel) /\ id \notin Ids(channel) => Distinct(channel')
    BY <2>1, <2>3, AppendIds DEF TransportInv, Types
  <2>5. /\ DOMAIN requests' = DOMAIN requests \cup {id} /\ requests'[id] = c
        /\ id \notin DOMAIN requests
        /\ \A i \in DOMAIN requests : requests'[i] = requests[i]
        /\ requests' \in [DOMAIN requests' -> Senders]
    BY <2>1, <2>2 DEF Put, TransportInv, Types
  <2>6. Types'
    BY <1>1, <1>2, <2>1, <2>2, <2>4, <2>5 DEF TransportInv, Types
  <2>7. OnePlace'
    <3>1. \A k \in 1..8 : id \notin Stages[k] /\ Stages[k] \subseteq 1..counter
      BY <2>2 DEF TransportInv, OnePlace
    <3>2. \A k \in 1..8 \ {1} : Stages'[k] = Stages[k]
      BY <1>1, StagesAre, Eight DEF Heads
    <3>3. Stages'[1] = Stages[1] \cup {id}
      BY <2>4, StagesAre
    <3>4. Apart(Stages')
      BY <3>1, <3>2, <3>3, Enter DEF TransportInv, OnePlace
    <3>5. Distinct(channel')
      BY <2>4, <3>1, StagesAre DEF TransportInv, OnePlace
    <3>6. \A k \in 1..8 : Stages'[k] \subseteq 1..counter'
      BY <2>1, <2>2, <3>1, <3>2, <3>3
    <3>7. QED
      BY <1>1, <3>4, <3>5, <3>6 DEF TransportInv, OnePlace, DistinctHeads
  <2>8. Registered'
    <3>1. Travelling' = Travelling \cup {r}
      BY <1>1, <2>4 DEF Travelling
    <3>2. Held(receiver) \subseteq 1..counter /\ Heads' = Heads
      BY <1>1, StagesAre DEF TransportInv, OnePlace, Heads
    <3>3. QED
      BY <1>1, <1>5, <2>2, <2>3, <2>5, <3>1, <3>2 DEF TransportInv, Registered
  <2>9. Stream'
    <3>1. \A k \in DOMAIN down : down[k].part = "header" => requests'[down[k].id] = requests[down[k].id]
      BY <1>5, <2>5 DEF TransportInv, Registered, Heads
    <3>2. \A k \in 1..Len(down) - 1 : k \in DOMAIN down
      BY LenProperties DEF TransportInv, Types
    <3>3. QED
      BY <1>1, <1>5, <3>1, <3>2 DEF TransportInv, Stream
  <2>10. Registry'
    <3>1. promise[c] = None /\ \A i \in DOMAIN requests : requests[i] # c
      BY <1>2, <1>5 DEF TransportInv, Registry
    <3>2. \A k \in DOMAIN channel : channel[k].of # c
      BY <1>2 DEF TransportInv, Registry
    <3>3. receiver # None => receiver.of # c
      BY <1>2, <1>5 DEF TransportInv, Registry
    <3>4. /\ DOMAIN channel = 1..Len(channel) /\ DOMAIN channel' = 1..(Len(channel) + 1) /\ Len(channel) \in Nat
          /\ \A k \in 1..Len(channel) : channel'[k] = channel[k]
          /\ channel'[Len(channel) + 1] = r
      BY <2>1, <2>3, AppendProperties, LenProperties DEF TransportInv, Types
    <3>5. \A k \in DOMAIN channel' : pc'[channel'[k].of] = "queued"
      BY <1>2, <2>1, <2>3, <3>2, <3>4 DEF TransportInv, Registry, Types, Requests
    <3>6. \A j, k \in DOMAIN channel' : channel'[j].of = channel'[k].of => j = k
      BY <2>3, <3>2, <3>4 DEF TransportInv, Registry
    <3>7. \A i, j \in DOMAIN requests' : requests'[i] = requests'[j] => i = j
      BY <2>5, <3>1 DEF TransportInv, Registry
    <3>8. \A i \in DOMAIN requests' : pc'[requests'[i]] \in {"queued", "waiting"} /\ promise'[requests'[i]] = None
      BY <1>1, <1>2, <2>1, <2>5, <3>1 DEF TransportInv, Registry
    <3>9. \A d \in Senders : pc'[d] \in {"queued", "waiting"} /\ promise'[d] = None =>
            (\E i \in DOMAIN requests' : requests'[i] = d) \/ (receiver' \notin {None, Done} /\ receiver'.of = d)
      <4>1. TAKE d \in Senders
      <4>2. CASE d = c
        BY <2>5, <4>2
      <4>3. CASE d # c
        BY <1>1, <1>2, <2>1, <2>5, <4>3 DEF TransportInv, Registry
      <4>4. QED
        BY <4>2, <4>3
    <3>10. running' /\ receiver' # None =>
             /\ pc'[receiver'.of] \in {"queued", "waiting"} /\ promise'[receiver'.of] = None
             /\ \A i \in DOMAIN requests' : requests'[i] # receiver'.of
      BY <1>1, <1>2, <2>1, <2>5, <3>3 DEF TransportInv, Registry
    <3>11. \A d \in Senders : pc'[d] \in {"idle", "done"} => promise'[d] = None
      BY <1>1, <1>2, <1>5, <2>1 DEF TransportInv, Registry
    <3>12. QED
      BY <1>1, <1>5, <3>5, <3>6, <3>7, <3>8, <3>9, <3>10, <3>11 DEF Registry
  <2>11. Once'
    <3>1. Unexecuted' = Unexecuted \cup {r} /\ Heads' = Heads
      BY <1>1, <2>4 DEF Unexecuted, Heads
    <3>2. c \in Callers => executed[c] = 0
      BY <1>2 DEF TransportInv, Once, Types
    <3>3. \A s \in Unexecuted : s.of \in Callers => s.of # c
      BY <1>2 DEF TransportInv, Once
    <3>4. \A i \in Heads : requests'[i] = requests[i]
      BY <1>5, <2>5 DEF TransportInv, Registered
    <3>5. \A d \in Senders : pc[d] # "idle" => pc'[d] # "idle"
      BY <1>2, <2>1
    <3>6. pc'[c] # "idle"
      BY <1>2, <2>1
    <3>7. Callers \subseteq Senders
      BY DEF Senders
    <3>8. \A s \in Unexecuted' : s.of \in Callers => executed'[s.of] = 0 /\ pc'[s.of] # "idle"
      BY <1>1, <2>3, <3>1, <3>2, <3>5, <3>6, <3>7 DEF TransportInv, Once
    <3>9. \A q, s \in Unexecuted' : q.of \in Callers /\ q.of = s.of => q.id = s.id
      BY <2>3, <3>1, <3>3 DEF TransportInv, Once
    <3>10. QED
      BY <1>1, <1>5, <3>1, <3>4, <3>5, <3>7, <3>8, <3>9 DEF TransportInv, Once
  <2>12. Told'
    BY <1>1, <1>2, <2>1 DEF TransportInv, Told, Senders
  <2>13. QED
    BY <1>3, <2>6, <2>7, <2>8, <2>9, <2>10, <2>11, <2>12 DEF TransportInv
<1>6. QED
  BY <1>4, <1>5 DEF TransportInv, Types

LEMMA ReturnStep ==
  ASSUME TransportInv, NEW c \in Senders, Return(c)
  PROVE  TransportInv'
<1>1. UNCHANGED <<running, socket, counter, requests, channel, sender, receiver, listener, inflight, pool, replies,
                  writer, executed, up, down, broken>>
  BY DEF Return, server, net
<1>2. /\ pc[c] = "waiting" /\ promise[c] # None
      /\ pc \in [Senders -> {"idle", "queued", "waiting", "done"}]
      /\ promise \in [Senders -> Errors \cup Senders \cup {None}]
      /\ pc' = [pc EXCEPT ![c] = "done"] /\ promise' = [promise EXCEPT ![c] = None]
      /\ answer' = [answer EXCEPT ![c] = promise[c]]
  BY DEF Return, TransportInv, Types
<1>3. Types'
  BY <1>1, <1>2 DEF TransportInv, Types
<1>4. Alive' /\ OnePlace' /\ Registered' /\ Stream' /\ NoneUnanswered'
  BY <1>1 DEF TransportInv, Alive, OnePlace, Stages, Heads, DistinctHeads, Registered, Travelling, Stream,
              NoneUnanswered
<1>5. Registry'
  <2>1. (\A i \in DOMAIN requests : requests[i] # c) /\ (running /\ receiver # None => receiver.of # c)
    BY <1>2 DEF TransportInv, Registry
  <2>2. \A k \in DOMAIN channel : channel[k].of # c
    BY <1>2 DEF TransportInv, Registry
  <2>3. \A d \in Senders : d # c => pc'[d] = pc[d] /\ promise'[d] = promise[d]
    BY <1>2
  <2>4. pc'[c] = "done" /\ promise'[c] = None
    BY <1>2
  <2>5. /\ \A i \in DOMAIN requests : requests[i] \in Senders
        /\ \A k \in DOMAIN channel : channel[k].of \in Senders
        /\ running /\ receiver # None => receiver.of \in Senders
    <3>1. \A k \in DOMAIN channel : channel[k] \in Requests
      BY ElementOfSeq, LenProperties DEF TransportInv, Types
    <3>2. running /\ receiver # None => receiver \in Answers
      BY DEF TransportInv, Types, Alive
    <3>3. QED
      BY <3>1, <3>2 DEF TransportInv, Types, Requests, Answers
  <2>6. QED
    BY <1>1, <2>1, <2>2, <2>3, <2>4, <2>5 DEF TransportInv, Registry
<1>6. Once'
  <2>1. \A d \in Senders : pc[d] # "idle" => pc'[d] # "idle"
    BY <1>2
  <2>2. Callers \subseteq Senders /\ Unexecuted' = Unexecuted /\ Heads' = Heads
    BY <1>1 DEF Senders, Unexecuted, Heads
  <2>3. QED
    BY <1>1, <2>1, <2>2 DEF TransportInv, Once
<1>7. Told'
  <2>1. \A d \in Callers : d # c => pc'[d] = pc[d] /\ promise'[d] = promise[d] /\ answer'[d] = answer[d]
    BY <1>2 DEF TransportInv, Types, Senders
  <2>2. pc'[c] = "done" /\ promise'[c] = None
    BY <1>2
  <2>3. c \in Callers => None # c
    BY NoneAssumption
  <2>4. QED
    BY <1>1, <2>1, <2>2, <2>3 DEF TransportInv, Told
<1>8. QED
  BY <1>3, <1>4, <1>5, <1>6, <1>7 DEF TransportInv

-----------------------------------------------------------------------------
(* Stopping *)

\* cancel_all leaves nobody to wait: whoever is registered or still queued has an error
\* in its future, and only the entry response_receive has in hand is left.
LEMMA CancelStep ==
  ASSUME TransportInv, NEW status \in Errors, NEW returned \in SUBSET {Watchdog},
         CancelAll(status, returned),
         UNCHANGED <<counter, up, down, broken, listener, inflight, pool, replies, writer, executed>>,
         socket' \in BOOLEAN, ~(socket' /\ receiver' # Done),
         receiver' = receiver \/ (receiver = None /\ receiver' = Done),
         answer' \in [Senders -> Errors \cup Senders \cup {None}],
         \A c \in Callers : answer'[c] = answer[c]
  PROVE  TransportInv'
<1>1. /\ pc \in [Senders -> {"idle", "queued", "waiting", "done"}]
      /\ promise \in [Senders -> Errors \cup Senders \cup {None}]
      /\ sender \in Requests \cup {None, Done} /\ receiver \in Answers \cup {None, Done}
  BY DEF TransportInv, Types
<1>2. /\ running' = FALSE /\ requests' = NoRequests /\ DOMAIN requests' = {} /\ channel' = << >>
      /\ sender' = IF sender = None THEN Done ELSE sender
  BY DEF CancelAll, NoRequests
<1>3. \A c \in Senders : \/ promise'[c] = promise[c] /\ pc[c] # "queued" /\ \A i \in DOMAIN requests : requests[i] # c
                         \/ promise'[c] \in Errors /\ (pc[c] = "queued" \/ \E i \in DOMAIN requests : requests[i] = c)
  BY DEF CancelAll, Cancelled, Errors
<1>4. \A c \in Senders : \/ c \in returned /\ pc'[c] = "done"
                         \/ pc[c] = "queued" /\ pc'[c] = "waiting"
                         \/ pc[c] # "queued" /\ pc'[c] = pc[c]
  BY DEF CancelAll
<1>5. DOMAIN promise' = Senders /\ DOMAIN pc' = Senders
  BY DEF CancelAll
<1>6. Types'
  <2>1. promise' \in [Senders -> Errors \cup Senders \cup {None}]
    BY <1>1, <1>3 DEF CancelAll
  <2>2. pc' \in [Senders -> {"idle", "queued", "waiting", "done"}]
    BY <1>1, <1>4 DEF CancelAll
  <2>3. requests' \in [DOMAIN requests' -> Senders]
    BY <1>2 DEF NoRequests
  <2>4. channel' \in Seq(Requests)
    BY <1>2
  <2>5. QED
    BY <1>1, <1>2, <2>1, <2>2, <2>3, <2>4 DEF TransportInv, Types
<1>7. OnePlace'
  <2>1. Held(sender') \subseteq Held(sender) /\ Held(receiver') \subseteq Held(receiver) /\ Ids(channel') = {}
        /\ Distinct(channel')
    BY <1>2, EmptyIds, HeldIn
  <2>2. \A k \in 1..8 : Stages'[k] \subseteq Stages[k]
    BY <2>1, StagesAre, Eight DEF Heads
  <2>3. Apart(Stages')
    BY <2>2, Shrink DEF TransportInv, OnePlace
  <2>4. QED
    BY <2>1, <2>2, <2>3 DEF TransportInv, OnePlace, DistinctHeads
<1>8. Alive' /\ Registered' /\ Stream' /\ NoneUnanswered'
  BY <1>2 DEF TransportInv, Alive, Registered, Stream, NoneUnanswered
<1>9. Registry'
  <2>1. ASSUME NEW c \in Senders, pc'[c] \in {"queued", "waiting"}, promise'[c] = None
        PROVE  receiver' \notin {None, Done} /\ receiver'.of = c
    <3>1. promise[c] = None /\ pc[c] = "waiting" /\ \A i \in DOMAIN requests : requests[i] # c
      BY <1>3, <1>4, <2>1, NoneAssumption
    <3>2. receiver \notin {None, Done} /\ receiver.of = c
      BY <3>1 DEF TransportInv, Registry
    <3>3. QED
      BY <3>2
  <2>2. DOMAIN channel' = {}
    BY <1>2
  <2>3. QED
    BY <1>2, <2>1, <2>2 DEF Registry
<1>10. Once'
  <2>1. Only(sender') \subseteq Only(sender) /\ Only(receiver') \subseteq Only(receiver) /\ Elems(channel') = {}
    BY <1>2, EmptyIds, HeldIn
  <2>2. Unexecuted' \subseteq Unexecuted
    BY <2>1 DEF Unexecuted
  <2>3. \A c \in Callers : pc[c] # "idle" => pc'[c] # "idle"
    BY <1>4 DEF Senders
  <2>4. QED
    BY <1>2, <2>1, <2>2, <2>3 DEF TransportInv, Once
<1>11. Told'
  <2>1. ASSUME NEW c \in Callers
        PROVE  /\ promise'[c] \in Errors \cup {c, None} /\ (promise'[c] = c => promise[c] = c)
               /\ (pc'[c] = "idle" => pc[c] = "idle") /\ (pc'[c] # "done" => pc[c] # "done")
               /\ (pc[c] = "idle" => promise'[c] = promise[c])
    <3>1. c \in Senders /\ c \notin returned /\ c \notin Errors
      BY TransportAssumption, ErrorAssumption DEF Senders
    <3>2. pc[c] = "idle" => \A i \in DOMAIN requests : requests[i] # c
      BY DEF TransportInv, Registry
    <3>3. QED
      BY <1>3, <1>4, <3>1, <3>2 DEF TransportInv, Told
  <2>2. QED
    BY <2>1 DEF TransportInv, Told
<1>12. QED
  BY <1>6, <1>7, <1>8, <1>9, <1>10, <1>11 DEF TransportInv

LEMMA StopStep ==
  ASSUME TransportInv, Stop,
         UNCHANGED <<counter, receiver, up, down, broken, listener, inflight, pool, replies, writer, executed>>,
         answer' \in [Senders -> Errors \cup Senders \cup {None}],
         \A c \in Callers : answer'[c] = answer[c]
  PROVE  TransportInv'
<1>1. socket' = FALSE
  BY DEF Stop
<1>2. CASE running
  <2>1. CancelAll(EAGAIN, {Watchdog}) /\ EAGAIN \in Errors
    BY <1>2 DEF Stop, Errors
  <2>2. QED
    BY <1>1, <2>1, CancelStep
<1>3. CASE ~running
  <2>1. UNCHANGED <<running, promise, pc, requests, channel, sender>>
    BY <1>3 DEF Stop
  <2>2. Types'
    BY <1>1, <2>1 DEF TransportInv, Types
  <2>3. Alive' /\ OnePlace'
    BY <1>1, <1>3, <2>1 DEF TransportInv, Alive, OnePlace, Stages, Heads, DistinctHeads
  <2>4. Registered' /\ Stream' /\ Registry' /\ NoneUnanswered'
    BY <1>3, <2>1 DEF TransportInv, Registered, Stream, Registry, NoneUnanswered
  <2>5. Once' /\ Told'
    BY <1>3, <2>1 DEF TransportInv, Once, Unexecuted, Told
  <2>6. QED
    BY <2>2, <2>3, <2>4, <2>5 DEF TransportInv
<1>4. QED
  BY <1>2, <1>3 DEF TransportInv, Types

LEMMA WatchdogResumesStep ==
  ASSUME TransportInv, WatchdogResumes
  PROVE  TransportInv'
<1>1. UNCHANGED <<counter, receiver, listener, inflight, pool, replies, writer, executed, up, down, broken>>
  BY DEF WatchdogResumes, server, net
<1>2. /\ pc[Watchdog] = "done" /\ Watchdog \in Senders
      /\ pc \in [Senders -> {"idle", "queued", "waiting", "done"}]
      /\ answer \in [Senders -> Errors \cup Senders \cup {None}]
  BY DEF WatchdogResumes, TransportInv, Types, Senders
<1>3. CASE answer[Watchdog] \in Errors
  <2>1. Stop /\ answer' = answer
    BY <1>3 DEF WatchdogResumes
  <2>2. QED
    BY <1>1, <1>2, <2>1, StopStep
<1>4. CASE answer[Watchdog] \notin Errors
  <2>1. /\ UNCHANGED <<running, socket, promise, requests, channel, sender>>
        /\ pc' = [pc EXCEPT ![Watchdog] = "idle"] /\ answer' = [answer EXCEPT ![Watchdog] = None]
    BY <1>4 DEF WatchdogResumes
  <2>2. Types'
    BY <1>1, <1>2, <2>1 DEF TransportInv, Types
  <2>3. Alive' /\ OnePlace' /\ Registered' /\ Stream' /\ NoneUnanswered'
    BY <1>1, <2>1 DEF TransportInv, Alive, OnePlace, Stages, Heads, DistinctHeads, Registered, Travelling, Stream,
                      NoneUnanswered
  <2>4. \A c \in Callers : c \in Senders /\ pc'[c] = pc[c] /\ answer'[c] = answer[c]
    BY <1>2, <2>1, TransportAssumption DEF Senders
  <2>5. Registry'
    BY <1>1, <1>2, <2>1 DEF TransportInv, Registry
  <2>6. Once' /\ Told'
    BY <1>1, <2>1, <2>4 DEF TransportInv, Once, Unexecuted, Heads, Told
  <2>7. QED
    BY <2>2, <2>3, <2>5, <2>6 DEF TransportInv
<1>5. QED
  BY <1>3, <1>4

LEMMA PingTimesOutStep ==
  ASSUME TransportInv, PingTimesOut
  PROVE  TransportInv'
<1>1. UNCHANGED <<counter, receiver, listener, inflight, pool, replies, writer, executed, up, down, broken>>
  BY DEF PingTimesOut, server, net
<1>2. Stop /\ answer' = [answer EXCEPT ![Watchdog] = ETIMEDOUT]
  BY DEF PingTimesOut, Expire
<1>3. answer' \in [Senders -> Errors \cup Senders \cup {None}]
  BY <1>2 DEF TransportInv, Types, Errors
<1>4. \A c \in Callers : answer'[c] = answer[c]
  BY <1>2, TransportAssumption DEF TransportInv, Types, Senders
<1>5. QED
  BY <1>1, <1>2, <1>3, <1>4, StopStep

-----------------------------------------------------------------------------
(* request_send *)

LEMMA TakeStep ==
  ASSUME TransportInv, Take
  PROVE  TransportInv'
<1> DEFINE r == Head(channel)
<1>1. UNCHANGED <<running, socket, counter, requests, promise, answer, receiver, listener, inflight, pool, replies,
                  writer, executed, up, down, broken>>
  BY DEF Take, server, net
<1>2. /\ sender = None /\ channel # << >> /\ channel \in Seq(Requests)
      /\ sender' = r /\ channel' = Tail(channel) /\ pc' = [pc EXCEPT ![r.of] = "waiting"]
      /\ pc \in [Senders -> {"idle", "queued", "waiting", "done"}]
  BY DEF Take, TransportInv, Types
<1>3. /\ channel' \in Seq(Requests) /\ r \in Requests
      /\ Ids(channel) = Ids(channel') \cup {r.id} /\ Elems(channel) = Elems(channel') \cup {r}
      /\ Distinct(channel) => Distinct(channel') /\ r.id \notin Ids(channel')
  BY <1>2, TailIds
<1>4. /\ DOMAIN channel = 1..Len(channel) /\ Len(channel) \in Nat \ {0} /\ r = channel[1]
      /\ DOMAIN channel' = 1..(Len(channel) - 1)
      /\ \A k \in 1..(Len(channel) - 1) : channel'[k] = channel[k + 1]
  BY <1>2, HeadTailProperties, LenProperties, EmptySeq
<1> HIDE DEF r
<1>5. r.of \in Senders /\ pc[r.of] = "queued"
  BY <1>3, <1>4 DEF TransportInv, Registry, Requests
<1>6. Types'
  BY <1>1, <1>2, <1>3, <1>5 DEF TransportInv, Types
<1>7. Held(sender') \subseteq {r.id} /\ Only(sender') \subseteq {r}
  BY <1>2 DEF Held, Only
<1>8. OnePlace'
  <2>1. \A k \in 1..8 \ {2} : Stages'[k] \subseteq Stages[k]
    BY <1>1, <1>3, StagesAre, Eight DEF Heads
  <2>2. Stages'[2] \subseteq {r.id} /\ r.id \in Stages[1]
    BY <1>3, <1>7, StagesAre
  <2>3. Distinct(channel') /\ r.id \notin Stages'[1]
    BY <1>3, StagesAre DEF TransportInv, OnePlace
  <2>4. Apart(Stages')
    BY <2>1, <2>2, <2>3, Move DEF TransportInv, OnePlace
  <2>5. \A k \in 1..8 : Stages'[k] \subseteq 1..counter
    BY <2>1, <2>2 DEF TransportInv, OnePlace
  <2>6. QED
    BY <1>1, <2>3, <2>4, <2>5 DEF TransportInv, OnePlace, DistinctHeads
<1>9. Registered'
  <2>1. Travelling' \subseteq Travelling
    BY <1>1, <1>3, <1>7 DEF Travelling
  <2>2. QED
    BY <1>1, <2>1 DEF TransportInv, Registered, Heads
<1>10. Alive' /\ Stream' /\ NoneUnanswered'
  BY <1>1 DEF TransportInv, Alive, Stream, NoneUnanswered
<1>11. \A c \in Senders : \/ pc'[c] = pc[c] /\ c # r.of
                          \/ c = r.of /\ pc[c] = "queued" /\ pc'[c] = "waiting"
  BY <1>2, <1>5
<1>12. Registry'
  <2>1. \A k \in DOMAIN channel' : channel'[k].of # r.of /\ channel'[k].of \in Senders /\ pc'[channel'[k].of] = "queued"
    <3>1. TAKE k \in DOMAIN channel'
    <3>2. k + 1 \in DOMAIN channel /\ k + 1 # 1 /\ channel'[k] = channel[k + 1]
      BY <1>4
    <3>3. channel[k + 1] \in Requests
      BY <1>2, <1>4, <3>2, ElementOfSeq
    <3>4. QED
      BY <1>4, <1>11, <3>2, <3>3 DEF TransportInv, Registry, Requests
  <2>2. \A j, k \in DOMAIN channel' : channel'[j].of = channel'[k].of => j = k
    <3>1. TAKE j, k \in DOMAIN channel'
    <3>2. j + 1 \in DOMAIN channel /\ k + 1 \in DOMAIN channel /\ j \in Nat /\ k \in Nat
          /\ channel'[k] = channel[k + 1] /\ channel'[j] = channel[j + 1]
      BY <1>4
    <3>3. QED
      BY <3>2 DEF TransportInv, Registry
  <2>3. ~running => channel' = << >>
    BY <1>2 DEF TransportInv, Registry
  <2>4. \A c \in Senders : /\ pc'[c] \in {"queued", "waiting"} <=> pc[c] \in {"queued", "waiting"}
                           /\ pc'[c] \in {"idle", "done"} <=> pc[c] \in {"idle", "done"}
    BY <1>11
  <2>5. /\ \A i \in DOMAIN requests : requests[i] \in Senders
        /\ running /\ receiver # None => receiver.of \in Senders
    BY DEF TransportInv, Types, Alive, Answers
  <2>6. QED
    BY <1>1, <2>1, <2>2, <2>3, <2>4, <2>5 DEF TransportInv, Registry
<1>13. Once'
  <2>1. Unexecuted' \subseteq Unexecuted
    BY <1>1, <1>3, <1>7 DEF Unexecuted
  <2>2. \A c \in Callers : pc[c] # "idle" => pc'[c] # "idle"
    BY <1>11 DEF Senders
  <2>3. QED
    BY <1>1, <2>1, <2>2 DEF TransportInv, Once, Heads
<1>14. Told'
  BY <1>1, <1>11 DEF TransportInv, Told, Senders
<1>15. QED
  BY <1>6, <1>8, <1>9, <1>10, <1>12, <1>13, <1>14 DEF TransportInv

LEMMA WriteRequestStep ==
  ASSUME TransportInv, WriteRequest
  PROVE  TransportInv'
<1>1. UNCHANGED <<running, socket, counter, requests, channel, pc, promise, answer, receiver, listener, inflight, pool,
                  replies, writer, executed, down, broken>>
  BY DEF WriteRequest, server
<1>2. /\ sender \notin {None, Done} /\ sender \in Requests /\ up \in Seq(Requests)
      /\ up' = Append(up, sender) /\ sender' \in {None, Done}
  BY DEF WriteRequest, TransportInv, Types, NextTurn
<1>3. Held(sender) = {sender.id} /\ Only(sender) = {sender} /\ Held(sender') = {} /\ Only(sender') = {}
  BY <1>2, HeldIn
<1>4. /\ up' \in Seq(Requests) /\ Ids(up') = Ids(up) \cup {sender.id} /\ Elems(up') = Elems(up) \cup {sender}
      /\ Distinct(up) /\ sender.id \notin Ids(up) => Distinct(up')
  BY <1>2, AppendIds
<1>5. Types'
  BY <1>1, <1>2, <1>4 DEF TransportInv, Types
<1>6. OnePlace'
  <2>1. sender.id \in Stages[2] /\ Stages'[2] = {} /\ Stages'[3] = Stages[3] \cup {sender.id}
    BY <1>3, <1>4, StagesAre
  <2>2. \A k \in 1..8 \ {3} : Stages'[k] \subseteq Stages[k]
    BY <1>1, <1>3, StagesAre, Eight DEF Heads
  <2>3. Apart(Stages')
    BY <2>1, <2>2, Move DEF TransportInv, OnePlace
  <2>4. sender.id \notin Stages[3]
    BY <2>1 DEF TransportInv, OnePlace, Apart
  <2>5. Distinct(up')
    BY <1>4, <2>4, StagesAre DEF TransportInv, OnePlace
  <2>6. \A k \in 1..8 : Stages'[k] \subseteq 1..counter
    BY <2>1, <2>2 DEF TransportInv, OnePlace
  <2>7. QED
    BY <1>1, <2>3, <2>5, <2>6 DEF TransportInv, OnePlace, DistinctHeads
<1>7. Registered'
  <2>1. Travelling' \subseteq Travelling
    BY <1>1, <1>3, <1>4 DEF Travelling
  <2>2. QED
    BY <1>1, <2>1 DEF TransportInv, Registered, Heads
<1>8. Alive' /\ Stream' /\ Registry' /\ Told' /\ NoneUnanswered'
  BY <1>1 DEF TransportInv, Alive, Stream, Registry, Told, NoneUnanswered
<1>9. Once'
  <2>1. Unexecuted' \subseteq Unexecuted
    BY <1>1, <1>3, <1>4 DEF Unexecuted
  <2>2. QED
    BY <1>1, <2>1 DEF TransportInv, Once, Heads
<1>10. QED
  BY <1>5, <1>6, <1>7, <1>8, <1>9 DEF TransportInv

\* Whoever is somewhere on the way has its id in the stage it is in.
LEMMA IdsOfElems ==
  /\ \A s : \A r \in Elems(s) : r.id \in Ids(s)
  /\ \A x : \A r \in Only(x) : r.id \in Held(x)
BY DEF Elems, Ids, Only, Held

LEMMA HeaderIds ==
  ASSUME NEW k \in DOMAIN down, down[k].part = "header"
  PROVE  down[k].id \in Heads
BY DEF Heads

LEMMA WriteFailsStep ==
  ASSUME TransportInv, WriteFails
  PROVE  TransportInv'
<1>1. UNCHANGED <<running, socket, counter, channel, pc, answer, receiver, listener, inflight, pool, replies, writer,
                  executed, up, down, broken>>
  BY DEF WriteFails, server, net
<1>2. /\ sender \notin {None, Done} /\ sender \in Requests /\ sender.of \in Senders
      /\ sender' \in {None, Done} /\ requests' = Drop(requests, {sender.id}) /\ promise' = WriteError
      /\ promise \in [Senders -> Errors \cup Senders \cup {None}]
  BY DEF WriteFails, TransportInv, Types, NextTurn, Requests
<1>3. /\ DOMAIN requests' = DOMAIN requests \ {sender.id} /\ \A i \in DOMAIN requests' : requests'[i] = requests[i]
      /\ requests' \in [DOMAIN requests' -> Senders]
  BY <1>2 DEF Drop, TransportInv, Types
<1>4. Held(sender) = {sender.id} /\ Only(sender) = {sender} /\ Held(sender') = {} /\ Only(sender') = {}
  BY <1>2, HeldIn
<1>5. \A c \in Senders : \/ promise'[c] = promise[c] /\ (sender.id \in DOMAIN requests => c # sender.of)
                         \/ promise'[c] = EIO /\ c = sender.of /\ sender.id \in DOMAIN requests
  BY <1>2 DEF WriteError
<1>6. sender.id \in DOMAIN requests => running /\ requests[sender.id] = sender.of
  <2>1. sender.id \in DOMAIN requests => running
    BY DEF TransportInv, Registry, NoRequests, Types
  <2>2. sender \in Travelling
    BY <1>4 DEF Travelling
  <2>3. QED
    BY <2>1, <2>2 DEF TransportInv, Registered
<1>7. Types'
  <2>1. promise' \in [Senders -> Errors \cup Senders \cup {None}]
    BY <1>2 DEF WriteError, Errors
  <2>2. QED
    BY <1>1, <1>2, <1>3, <2>1 DEF TransportInv, Types
<1>8. OnePlace'
  <2>1. \A k \in 1..8 : Stages'[k] \subseteq Stages[k]
    BY <1>1, <1>4, StagesAre, Eight DEF Heads
  <2>2. Apart(Stages')
    BY <2>1, Shrink DEF TransportInv, OnePlace
  <2>3. QED
    BY <1>1, <2>1, <2>2 DEF TransportInv, OnePlace, DistinctHeads
<1>9. /\ sender.id \notin Ids(channel) /\ sender.id \notin Ids(up) /\ sender.id \notin Ids(pool)
      /\ sender.id \notin Ids(replies) /\ sender.id \notin Held(writer) /\ sender.id \notin Heads
  <2>1. \A k \in 1..8 : k # 2 => sender.id \notin Stages[k]
    BY <1>4, StagesAre DEF TransportInv, OnePlace, Apart
  <2>2. QED
    BY <2>1, StagesAre
<1>10. Registered'
  <2>1. \A r \in Travelling' : r \in Travelling /\ r.id # sender.id
    BY <1>1, <1>4, <1>9, IdsOfElems DEF Travelling
  <2>2. Heads' = Heads
    BY <1>1 DEF Heads
  <2>3. QED
    BY <1>1, <1>3, <1>9, <2>1, <2>2 DEF TransportInv, Registered
<1>11. Stream'
  <2>1. ASSUME running, NEW k \in DOMAIN down, down[k].part = "header"
        PROVE  requests'[down[k].id] = requests[down[k].id]
    <3>1. down[k].id \in Heads
      BY <2>1, HeaderIds
    <3>2. QED
      BY <1>3, <1>9, <2>1, <3>1 DEF TransportInv, Registered
  <2>2. \A k \in 1..Len(down) - 1 : k \in DOMAIN down
    BY LenProperties DEF TransportInv, Types
  <2>3. QED
    BY <1>1, <2>1, <2>2 DEF TransportInv, Stream
<1>12. Registry'
  <2>1. ~running => requests' = NoRequests
    BY <1>2 DEF TransportInv, Registry, NoRequests, Drop
  <2>2. \A i \in DOMAIN requests' : requests'[i] \in Senders /\ promise'[requests'[i]] = promise[requests'[i]]
    BY <1>3, <1>5, <1>6 DEF TransportInv, Registry, Types
  <2>3. running /\ receiver # None => receiver.of \in Senders /\ promise'[receiver.of] = promise[receiver.of]
    BY <1>5, <1>6 DEF TransportInv, Registry, Types, Alive, Answers
  <2>4. sender.id \in DOMAIN requests => pc[sender.of] \in {"queued", "waiting"}
    BY <1>6 DEF TransportInv, Registry
  <2>5. \A c \in Senders : pc[c] \in {"idle", "done"} => promise'[c] = promise[c]
    BY <1>5, <2>4
  <2>6. \A c \in Senders : promise'[c] = None => promise[c] = None /\ (sender.id \in DOMAIN requests => c # sender.of)
    BY <1>5, NoneAssumption DEF Errors
  <2>7. ASSUME NEW c \in Senders, pc[c] \in {"queued", "waiting"}, promise'[c] = None
        PROVE  (\E i \in DOMAIN requests' : requests'[i] = c) \/ (receiver \notin {None, Done} /\ receiver.of = c)
    <3>1. (\E i \in DOMAIN requests : requests[i] = c) \/ (receiver \notin {None, Done} /\ receiver.of = c)
      BY <2>6, <2>7 DEF TransportInv, Registry
    <3>2. ASSUME NEW i \in DOMAIN requests, requests[i] = c
          PROVE  i \in DOMAIN requests' /\ requests'[i] = c
      BY <1>3, <1>6, <2>6, <2>7, <3>2
    <3>3. QED
      BY <3>1, <3>2
  <2>8. QED
    BY <1>1, <1>3, <2>1, <2>2, <2>3, <2>5, <2>7 DEF TransportInv, Registry
<1>13. Once'
  <2>1. Unexecuted' \subseteq Unexecuted /\ Heads' = Heads
    BY <1>1, <1>4 DEF Unexecuted, Heads
  <2>2. running => \A i \in Heads : requests'[i] = requests[i]
    BY <1>3, <1>9 DEF TransportInv, Registered
  <2>3. QED
    BY <1>1, <2>1, <2>2 DEF TransportInv, Once
<1>14. Told'
  <2>1. \A c \in Callers : c \in Senders /\ c \notin Errors /\ EIO \in Errors
    BY ErrorAssumption DEF Senders, Errors
  <2>2. sender.id \in DOMAIN requests => pc[sender.of] # "idle"
    BY <1>6 DEF TransportInv, Registry
  <2>3. QED
    BY <1>1, <1>5, <2>1, <2>2 DEF TransportInv, Told
<1>15. QED
  BY <1>1, <1>7, <1>8, <1>10, <1>11, <1>12, <1>13, <1>14 DEF TransportInv, Alive, NoneUnanswered

-----------------------------------------------------------------------------
(* response_receive *)

LEMMA DownTail ==
  ASSUME TransportInv, down # << >>, down' = Tail(down)
  PROVE  /\ down' \in Seq(Headers \cup Payloads) /\ Head(down) = down[1] /\ down[1] \in Headers \cup Payloads
         /\ Len(down) \in Nat \ {0} /\ Len(down') = Len(down) - 1
         /\ DOMAIN down = 1..Len(down) /\ DOMAIN down' = 1..(Len(down) - 1)
         /\ \A k \in 1..(Len(down) - 1) : down'[k] = down[k + 1]
         /\ Heads' \subseteq Heads /\ DistinctHeads'
         /\ down[1].part = "header" => down[1].id \in Heads /\ down[1].id \notin Heads'
<1>1. /\ down' \in Seq(Headers \cup Payloads) /\ Head(down) = down[1] /\ down[1] \in Headers \cup Payloads
      /\ Len(down) \in Nat \ {0} /\ Len(down') = Len(down) - 1
      /\ DOMAIN down = 1..Len(down) /\ DOMAIN down' = 1..(Len(down) - 1)
      /\ \A k \in 1..(Len(down) - 1) : down'[k] = down[k + 1]
  BY HeadTailProperties, LenProperties, EmptySeq DEF TransportInv, Types
<1>2. \A k \in DOMAIN down' : k + 1 \in DOMAIN down /\ k + 1 # 1 /\ down'[k] = down[k + 1]
  BY <1>1
<1>3. Heads' \subseteq Heads
  BY <1>2 DEF Heads
<1>4. DistinctHeads'
  <2>1. ASSUME NEW j \in DOMAIN down', NEW k \in DOMAIN down', down'[j].part = "header", down'[k].part = "header",
               down'[j].id = down'[k].id
        PROVE  j = k
    <3>1. j + 1 = k + 1
      BY <1>2, <2>1 DEF TransportInv, OnePlace, DistinctHeads
    <3>2. QED
      BY <1>1, <3>1
  <2>2. QED
    BY <2>1 DEF DistinctHeads
<1>5. down[1].part = "header" => down[1].id \in Heads /\ down[1].id \notin Heads'
  <2>1. 1 \in DOMAIN down
    BY <1>1
  <2>2. \A k \in DOMAIN down' : down'[k].part = "header" /\ down[1].part = "header" => down'[k].id # down[1].id
    BY <1>2, <2>1 DEF TransportInv, OnePlace, DistinctHeads
  <2>3. QED
    BY <2>1, <2>2 DEF Heads
<1>6. QED
  BY <1>1, <1>3, <1>4, <1>5

\* A header is read where one was written, and its entry is in the table.
LEMMA HeaderRead ==
  ASSUME TransportInv, receiver = None, socket, down # << >>
  PROVE  /\ running /\ Head(down) = down[1] /\ down[1] \in Headers /\ down[1].part = "header"
         /\ down[1].id \in DOMAIN requests /\ down[1].id \in Heads /\ 1 \in DOMAIN down
<1>1. running
  BY NoneAssumption DEF TransportInv, Alive
<1>2. Head(down) = down[1] /\ 1 \in DOMAIN down /\ down[1] \in Headers \cup Payloads
  BY HeadTailProperties, LenProperties, EmptySeq, ElementOfSeq DEF TransportInv, Types
<1>3. down[1].part = "header"
  BY <1>1 DEF TransportInv, Stream
<1>4. down[1].id \in Heads
  BY <1>2, <1>3, HeaderIds
<1>5. \A p \in Payloads : p.part # "header"
  BY DEF Payloads
<1>6. QED
  BY <1>1, <1>2, <1>3, <1>4, <1>5 DEF TransportInv, Registered

LEMMA ReceiveHeaderStep ==
  ASSUME TransportInv, ReceiveHeader
  PROVE  TransportInv'
<1> DEFINE id == down[1].id
           r == [id |-> id, of |-> requests[id], size |-> down[1].size]
<1>1. /\ receiver = None /\ socket /\ down # << >> /\ down' = Tail(down)
      /\ running /\ Head(down) = down[1] /\ down[1] \in Headers /\ down[1].part = "header"
      /\ id \in DOMAIN requests /\ id \in Heads /\ 1 \in DOMAIN down
  BY HeaderRead DEF ReceiveHeader
<1>2. /\ receiver' = r /\ requests' = Drop(requests, {id})
      /\ UNCHANGED <<running, promise, pc, channel, sender, socket, counter, answer, listener, inflight, pool, replies,
                     writer, executed, up, broken>>
  BY <1>1 DEF ReceiveHeader, Extract, server
<1>3. /\ r \in Answers /\ r.id = id /\ r.of = requests[id] /\ r.size = down[1].size /\ r.size \in {0, 1}
  BY <1>1 DEF TransportInv, Types, Answers, Headers
<1>4. r \notin {None, Done} /\ Held(receiver') = {id} /\ Only(receiver') = {r}
  BY <1>2, <1>3, Apartness, HeldIn
<1> HIDE DEF r, id
<1>5. /\ DOMAIN requests' = DOMAIN requests \ {id} /\ \A i \in DOMAIN requests' : requests'[i] = requests[i]
      /\ requests' \in [DOMAIN requests' -> Senders]
  BY <1>2 DEF Drop, TransportInv, Types
<1>6. /\ down' \in Seq(Headers \cup Payloads) /\ Len(down) \in Nat \ {0} /\ Len(down') = Len(down) - 1
      /\ DOMAIN down = 1..Len(down) /\ DOMAIN down' = 1..(Len(down) - 1)
      /\ \A k \in 1..(Len(down) - 1) : down'[k] = down[k + 1]
      /\ Heads' \subseteq Heads /\ DistinctHeads' /\ id \notin Heads'
  BY <1>1, DownTail DEF id
<1>7. Types'
  BY <1>2, <1>3, <1>5, <1>6 DEF TransportInv, Types
<1>8. OnePlace'
  <2>1. \A k \in 1..8 \ {8} : Stages'[k] \subseteq Stages[k]
    BY <1>2, <1>6, StagesAre, Eight
  <2>2. Stages'[8] = {id} /\ id \in Stages[7] /\ id \notin Stages'[7]
    BY <1>1, <1>4, <1>6, StagesAre
  <2>3. Apart(Stages')
    BY <2>1, <2>2, Move DEF TransportInv, OnePlace
  <2>4. \A k \in 1..8 : Stages'[k] \subseteq 1..counter
    BY <2>1, <2>2 DEF TransportInv, OnePlace
  <2>5. QED
    BY <1>2, <1>6, <2>3, <2>4 DEF TransportInv, OnePlace
<1>9. /\ id \notin Ids(channel) /\ id \notin Held(sender) /\ id \notin Ids(up) /\ id \notin Ids(pool)
      /\ id \notin Ids(replies) /\ id \notin Held(writer)
  <2>1. \A k \in 1..8 : k # 7 => id \notin Stages[k]
    BY <1>1, StagesAre DEF TransportInv, OnePlace, Apart
  <2>2. QED
    BY <2>1, StagesAre
<1>10. Registered'
  <2>1. \A t \in Travelling' : t \in Travelling /\ t.id # id
    BY <1>2, <1>9, IdsOfElems DEF Travelling
  <2>2. QED
    BY <1>1, <1>2, <1>4, <1>5, <1>6, <2>1 DEF TransportInv, Registered
<1>11. Alive'
  BY <1>1, <1>2, <1>4 DEF Alive
<1>12. Stream'
  <2>1. ASSUME NEW k \in 1..Len(down') - 1
        PROVE  IF down'[k].part = "header" /\ down'[k].size = 1
               THEN down'[k + 1].part = "payload" /\ down'[k + 1].of = requests'[down'[k].id]
               ELSE down'[k + 1].part = "header"
    <3>1. k + 1 \in 1..Len(down) - 1 /\ k \in DOMAIN down' /\ down'[k] = down[k + 1] /\ down'[k + 1] = down[k + 2]
          /\ (k + 1) + 1 = k + 2
      BY <1>6
    <3>2. down'[k].part = "header" => requests'[down'[k].id] = requests[down'[k].id]
      <4>1. down'[k].part = "header" => down'[k].id \in Heads'
        BY <3>1 DEF Heads
      <4>2. QED
        BY <1>1, <1>5, <1>6, <4>1 DEF TransportInv, Registered
    <3>3. IF down[k + 1].part = "header" /\ down[k + 1].size = 1
          THEN down[k + 2].part = "payload" /\ down[k + 2].of = requests[down[k + 1].id]
          ELSE down[k + 2].part = "header"
      BY <1>1, <3>1 DEF TransportInv, Stream
    <3>4. QED
      BY <3>1, <3>2, <3>3
  <2>2. ~broken /\ down' # << >> => ~(down'[Len(down')].part = "header" /\ down'[Len(down')].size = 1)
    <3>1. down' # << >> => down'[Len(down')] = down[Len(down)]
      BY <1>6, EmptySeq
    <3>2. QED
      BY <1>1, <3>1 DEF TransportInv, Stream
  <2>3. CASE r.size = 1
    <3>1. ~broken => Len(down) # 1
      BY <1>1, <1>3, <2>3 DEF TransportInv, Stream
    <3>2. ~broken => down' # << >>
      BY <1>6, <3>1
    <3>3. down' # << >> => 1 \in 1..Len(down) - 1 /\ down'[1] = down[2] /\ 1 + 1 = 2
      BY <1>6, EmptySeq
    <3>4. down' # << >> => down'[1].part = "payload" /\ down'[1].of = r.of
      BY <1>1, <1>3, <2>3, <3>3 DEF TransportInv, Stream, id
    <3>5. QED
      BY <1>1, <1>2, <1>4, <2>1, <2>2, <2>3, <3>2, <3>4 DEF Stream
  <2>4. CASE r.size # 1
    <3>1. down' # << >> => 1 \in 1..Len(down) - 1 /\ down'[1] = down[2] /\ 1 + 1 = 2
      BY <1>6, EmptySeq
    <3>2. down' # << >> => down'[1].part = "header"
      BY <1>1, <1>3, <2>4, <3>1 DEF TransportInv, Stream
    <3>3. QED
      BY <1>1, <1>2, <1>4, <2>1, <2>2, <2>4, <3>2 DEF Stream
  <2>5. QED
    BY <2>3, <2>4
<1>13. Registry'
  <2>1. pc[r.of] \in {"queued", "waiting"} /\ promise[r.of] = None
    BY <1>1, <1>3 DEF TransportInv, Registry
  <2>2. \A i \in DOMAIN requests' : requests'[i] # r.of
    BY <1>1, <1>3, <1>5 DEF TransportInv, Registry
  <2>3. ASSUME NEW c \in Senders, pc[c] \in {"queued", "waiting"}, promise[c] = None
        PROVE  (\E i \in DOMAIN requests' : requests'[i] = c) \/ r.of = c
    <3>1. PICK i \in DOMAIN requests : requests[i] = c
      BY <1>1, <2>3 DEF TransportInv, Registry
    <3>2. QED
      BY <1>3, <1>5, <3>1
  <2>4. \A i \in DOMAIN requests' : i \in DOMAIN requests /\ requests'[i] = requests[i]
    BY <1>5
  <2>5. \A i, j \in DOMAIN requests' : requests'[i] = requests'[j] => i = j
    BY <2>4 DEF TransportInv, Registry
  <2>6. \A i \in DOMAIN requests' : pc[requests'[i]] \in {"queued", "waiting"} /\ promise[requests'[i]] = None
    BY <2>4 DEF TransportInv, Registry
  <2>7. QED
    BY <1>1, <1>2, <1>4, <2>1, <2>2, <2>3, <2>5, <2>6 DEF TransportInv, Registry
<1>14. Once'
  <2>1. r.of \in Callers => executed[r.of] = 1
    BY <1>1, <1>3 DEF TransportInv, Once
  <2>2. \A i \in Heads' : i \in Heads /\ requests'[i] = requests[i]
    BY <1>1, <1>5, <1>6 DEF TransportInv, Registered
  <2>3. Unexecuted' = Unexecuted
    BY <1>2 DEF Unexecuted
  <2>4. QED
    BY <1>1, <1>2, <1>4, <2>1, <2>2, <2>3 DEF TransportInv, Once
<1>15. QED
  BY <1>2, <1>7, <1>8, <1>10, <1>11, <1>12, <1>13, <1>14 DEF TransportInv, Told, NoneUnanswered

LEMMA ReceivePayloadStep ==
  ASSUME TransportInv, ReceivePayload
  PROVE  TransportInv'
<1> DEFINE c == receiver.of
<1>1. UNCHANGED <<running, socket, counter, requests, channel, pc, answer, sender, listener, inflight, pool, replies,
                  writer, executed, up, broken>>
  BY DEF ReceivePayload, server
<1>2. /\ receiver \notin {None, Done} /\ socket /\ running /\ receiver \in Answers /\ c \in Senders
      /\ receiver.size \in {0, 1} /\ receiver' = None /\ Held(receiver') = {} /\ Only(receiver') = {}
      /\ Only(receiver) = {receiver}
  BY HeldIn DEF ReceivePayload, TransportInv, Types, Alive, NextTurn, Answers
<1> HIDE DEF c
<1>3. ASSUME promise' = [promise EXCEPT ![c] = c], Stream', Heads' \subseteq Heads, DistinctHeads',
             down' \in Seq(Headers \cup Payloads)
      PROVE  TransportInv'
  <2>1. /\ promise' \in [Senders -> Errors \cup Senders \cup {None}] /\ promise'[c] = c
        /\ \A d \in Senders : d # c => promise'[d] = promise[d]
    BY <1>2, <1>3 DEF TransportInv, Types
  <2>2. Types'
    BY <1>1, <1>2, <1>3, <2>1 DEF TransportInv, Types
  <2>3. OnePlace'
    <3>1. \A k \in 1..8 : Stages'[k] \subseteq Stages[k]
      BY <1>1, <1>2, <1>3, StagesAre, Eight
    <3>2. Apart(Stages')
      BY <3>1, Shrink DEF TransportInv, OnePlace
    <3>3. QED
      BY <1>1, <1>3, <3>1, <3>2 DEF TransportInv, OnePlace
  <2>4. Alive'
    BY <1>1, <1>2, NoneAssumption DEF Alive
  <2>5. Registered'
    BY <1>1, <1>2, <1>3 DEF TransportInv, Registered, Travelling
  <2>6. Registry'
    <3>1. \A i \in DOMAIN requests : requests[i] \in Senders /\ requests[i] # c
      BY <1>2 DEF TransportInv, Registry, Types, c
    <3>2. pc[c] \in {"queued", "waiting"} /\ c # None
      BY <1>2, NoneAssumption DEF TransportInv, Registry, c
    <3>3. \A d \in Senders : pc[d] \in {"queued", "waiting"} /\ promise'[d] = None =>
            \E i \in DOMAIN requests : requests[i] = d
      BY <2>1, <3>2 DEF TransportInv, Registry, c
    <3>4. QED
      BY <1>1, <1>2, <2>1, <3>1, <3>2, <3>3 DEF TransportInv, Registry
  <2>7. c \in Callers => executed[c] = 1 /\ pc[c] # "idle"
    BY <1>2 DEF TransportInv, Once, c
  <2>8. Once'
    BY <1>1, <1>2, <1>3 DEF TransportInv, Once, Unexecuted
  <2>9. Told'
    <3>1. \A d \in Callers : d \in Senders
      BY DEF Senders
    <3>2. QED
      BY <1>1, <2>1, <2>7, <3>1 DEF TransportInv, Told
  <2>10. QED
    BY <1>1, <1>3, <2>2, <2>3, <2>4, <2>5, <2>6, <2>8, <2>9 DEF TransportInv, NoneUnanswered
<1>4. CASE receiver.size = 0
  <2>1. down' = down /\ promise' = [promise EXCEPT ![c] = c] /\ (down # << >> => down[1].part = "header")
    BY <1>2, <1>4 DEF ReceivePayload, TransportInv, Stream, c
  <2>2. Stream'
    BY <1>1, <1>2, <2>1 DEF TransportInv, Stream
  <2>3. Heads' = Heads /\ DistinctHeads' /\ down' \in Seq(Headers \cup Payloads)
    BY <2>1 DEF Heads, DistinctHeads, TransportInv, OnePlace, Types
  <2>4. QED
    BY <1>3, <2>1, <2>2, <2>3
<1>5. CASE receiver.size # 0
  <2>1. /\ down # << >> /\ down' = Tail(down) /\ promise' = [promise EXCEPT ![c] = Head(down).of]
    BY <1>5 DEF ReceivePayload, c
  <2>2. /\ down' \in Seq(Headers \cup Payloads) /\ Head(down) = down[1]
        /\ Len(down) \in Nat \ {0} /\ Len(down') = Len(down) - 1
        /\ DOMAIN down = 1..Len(down) /\ DOMAIN down' = 1..(Len(down) - 1)
        /\ \A k \in 1..(Len(down) - 1) : down'[k] = down[k + 1]
        /\ Heads' \subseteq Heads /\ DistinctHeads'
    BY <2>1, DownTail
  <2>3. down[1].part = "payload" /\ down[1].of = c
    BY <1>2, <1>5, <2>1 DEF TransportInv, Stream, c
  <2>4. Stream'
    <3>1. ASSUME NEW k \in 1..Len(down') - 1
          PROVE  IF down'[k].part = "header" /\ down'[k].size = 1
                 THEN down'[k + 1].part = "payload" /\ down'[k + 1].of = requests[down'[k].id]
                 ELSE down'[k + 1].part = "header"
      <4>1. k + 1 \in 1..Len(down) - 1 /\ down'[k] = down[k + 1] /\ down'[k + 1] = down[k + 2] /\ (k + 1) + 1 = k + 2
        BY <2>2
      <4>2. IF down[k + 1].part = "header" /\ down[k + 1].size = 1
            THEN down[k + 2].part = "payload" /\ down[k + 2].of = requests[down[k + 1].id]
            ELSE down[k + 2].part = "header"
        BY <1>2, <4>1 DEF TransportInv, Stream
      <4>3. QED
        BY <4>1, <4>2
    <3>2. down' # << >> => 1 \in 1..Len(down) - 1 /\ down'[1] = down[2] /\ 1 + 1 = 2
                           /\ down'[Len(down')] = down[Len(down)]
      BY <2>2, EmptySeq
    <3>3. ~broken /\ down' # << >> => ~(down'[Len(down')].part = "header" /\ down'[Len(down')].size = 1)
      BY <1>2, <2>1, <3>2 DEF TransportInv, Stream
    <3>4. down' # << >> => down'[1].part = "header"
      BY <1>2, <2>3, <3>2 DEF TransportInv, Stream
    <3>5. QED
      BY <1>1, <1>2, <3>1, <3>3, <3>4 DEF Stream
  <2>5. QED
    BY <1>3, <2>1, <2>2, <2>3, <2>4
<1>6. QED
  BY <1>4, <1>5

LEMMA ReadFailsStep ==
  ASSUME TransportInv, ReadFails
  PROVE  TransportInv'
<1>1. UNCHANGED <<socket, counter, answer, listener, inflight, pool, replies, writer, executed, up, down, broken>>
  BY DEF ReadFails, server, net
<1>2. CASE receiver = None
  <2>1. receiver' = Done /\ CancelAll(ECANCELED, {}) /\ ECANCELED \in Errors
    BY <1>2 DEF ReadFails, Errors
  <2>2. socket' \in BOOLEAN /\ answer' \in [Senders -> Errors \cup Senders \cup {None}]
    BY <1>1 DEF TransportInv, Types
  <2>3. QED
    BY <1>1, <1>2, <2>1, <2>2, CancelStep
<1>3. CASE receiver # None
  <2> DEFINE c == receiver.of
  <2>1. /\ UNCHANGED <<running, pc, requests, channel, sender>>
        /\ receiver' = NextTurn /\ promise' = [promise EXCEPT ![c] = EIO]
    BY <1>3 DEF ReadFails
  <2>2. /\ receiver \in Answers /\ c \in Senders /\ receiver \notin {None, Done} /\ Only(receiver) = {receiver}
        /\ receiver' \in {None, Done} /\ Held(receiver') = {} /\ Only(receiver') = {}
    BY <1>3, <2>1, HeldIn DEF ReadFails, TransportInv, Types, Answers, NextTurn
  <2>3. running => broken /\ down = << >> /\ receiver' = None
    BY <2>1 DEF ReadFails, TransportInv, Alive, NextTurn
  <2> HIDE DEF c
  <2>4. /\ promise' \in [Senders -> Errors \cup Senders \cup {None}] /\ promise'[c] = EIO /\ EIO \in Errors
        /\ \A d \in Senders : d # c => promise'[d] = promise[d]
    BY <2>1, <2>2 DEF TransportInv, Types, Errors
  <2>5. Types'
    BY <1>1, <2>1, <2>2, <2>4 DEF TransportInv, Types
  <2>6. OnePlace'
    <3>1. \A k \in 1..8 : Stages'[k] \subseteq Stages[k]
      BY <1>1, <2>1, <2>2, StagesAre, Eight DEF Heads
    <3>2. Apart(Stages')
      BY <3>1, Shrink DEF TransportInv, OnePlace
    <3>3. QED
      BY <1>1, <2>1, <3>1, <3>2 DEF TransportInv, OnePlace, DistinctHeads
  <2>7. Alive'
    BY <1>1, <2>1, <2>2, NoneAssumption DEF TransportInv, Alive, NextTurn
  <2>8. Registered'
    BY <1>1, <2>1, <2>2 DEF TransportInv, Registered, Travelling, Heads
  <2>9. Stream'
    BY <1>1, <2>1, <2>3 DEF TransportInv, Stream
  <2>10. Registry'
    <3>1. \A i \in DOMAIN requests : running /\ requests[i] \in Senders /\ requests[i] # c
      <4>1. DOMAIN requests # {} => running
        BY DEF TransportInv, Registry, NoRequests
      <4>2. QED
        BY <2>2, <4>1 DEF TransportInv, Registry, Types, c
    <3>2. running => pc[c] \in {"queued", "waiting"}
      BY <2>2 DEF TransportInv, Registry, c
    <3>3. \A d \in Senders : pc[d] \in {"queued", "waiting"} /\ promise'[d] = None =>
            \E i \in DOMAIN requests : requests[i] = d
      BY <2>4, NoneAssumption DEF TransportInv, Registry, c
    <3>4. \A i \in DOMAIN requests : promise'[requests[i]] = promise[requests[i]]
      BY <2>4, <3>1
    <3>5. running => \A d \in Senders : pc[d] \in {"idle", "done"} => promise'[d] = promise[d]
      BY <2>4, <3>2
    <3>6. QED
      BY <1>1, <2>1, <2>3, <3>3, <3>4, <3>5 DEF TransportInv, Registry
  <2>11. c \in Callers => executed[c] = 1 /\ pc[c] # "idle" /\ c # EIO
    BY <2>2, <2>4, ErrorAssumption DEF TransportInv, Once, c
  <2>12. Once'
    BY <1>1, <2>1, <2>2 DEF TransportInv, Once, Unexecuted, Heads
  <2>13. Told'
    <3>1. \A d \in Callers : d \in Senders
      BY DEF Senders
    <3>2. QED
      BY <1>1, <2>1, <2>4, <2>11, <3>1 DEF TransportInv, Told
  <2>14. QED
    BY <1>1, <2>5, <2>6, <2>7, <2>8, <2>9, <2>10, <2>12, <2>13 DEF TransportInv, NoneUnanswered
<1>4. QED
  BY <1>2, <1>3

-----------------------------------------------------------------------------
(* The server *)

LEMMA UnansweredIs ==
  /\ NoneUnanswered <=> (listener \in {"listen", "ping"} => inflight = Ids(pool) \cup Ids(replies))
  /\ NoneUnanswered' <=> (listener' \in {"listen", "ping"} => inflight' = Ids(pool') \cup Ids(replies'))
BY DEF NoneUnanswered, Ids

LEMMA ReplyIs ==
  ASSUME NEW r, r.id \in Nat, r.of \in Senders, NEW size \in {0, 1}
  PROVE  /\ Reply(r, size) \in Answers /\ Reply(r, size).id = r.id /\ Reply(r, size).of = r.of
         /\ Reply(r, size).size = size
BY DEF Reply, Answers

LEMMA ReceiveStep ==
  ASSUME TransportInv, Receive
  PROVE  TransportInv'
<1> DEFINE r == Head(up)
<1>1. UNCHANGED <<running, socket, counter, requests, channel, pc, promise, answer, sender, receiver, writer, executed,
                  down, broken>>
  BY DEF Receive, client
<1>2. listener = "listen" /\ up # << >> /\ up' = Tail(up) /\ up \in Seq(Requests)
  BY DEF Receive, TransportInv, Types
<1>3. /\ up' \in Seq(Requests) /\ r \in Requests /\ r.id \in Nat /\ r.of \in Senders
      /\ Ids(up) = Ids(up') \cup {r.id} /\ Elems(up) = Elems(up') \cup {r}
      /\ Distinct(up) => Distinct(up') /\ r.id \notin Ids(up')
  <2>1. /\ up' \in Seq(Requests) /\ r \in Requests
        /\ Ids(up) = Ids(up') \cup {r.id} /\ Elems(up) = Elems(up') \cup {r}
        /\ Distinct(up) => Distinct(up') /\ r.id \notin Ids(up')
    BY <1>2, TailIds
  <2>2. QED
    BY <2>1 DEF Requests
<1>4. inflight = Ids(pool) \cup Ids(replies)
  BY <1>2, UnansweredIs DEF TransportInv
<1>5. r.id \in Stages[3] /\ r.id \notin Ids(up') /\ r.id \notin Ids(pool) /\ r.id \notin Ids(replies) /\ Distinct(up')
  <2>1. r.id \in Stages[3]
    BY <1>3, StagesAre
  <2>2. r.id \notin Stages[4] /\ r.id \notin Stages[5]
    BY <2>1 DEF TransportInv, OnePlace, Apart
  <2>3. QED
    BY <1>3, <2>1, <2>2, StagesAre DEF TransportInv, OnePlace
<1>6. r.id \notin inflight
  BY <1>4, <1>5
<1>7. inflight' = inflight \cup {r.id}
  BY <1>6 DEF Receive
<1>8. Alive' /\ Stream' /\ Registry' /\ Told'
  BY <1>1 DEF TransportInv, Alive, Stream, Registry, Told
<1>9. CASE r.of = Watchdog
  <2> DEFINE a == Reply(r, 1)
  <2>1. listener' = "ping" /\ replies' = Append(replies, a) /\ pool' = pool
    BY <1>6, <1>9 DEF Receive
  <2>2. a \in Answers /\ a.id = r.id /\ a.of = r.of
    BY <1>3, ReplyIs
  <2> HIDE DEF a, r
  <2>3. /\ replies' \in Seq(Answers) /\ Ids(replies') = Ids(replies) \cup {r.id} /\ Elems(replies') = Elems(replies) \cup {a}
        /\ Distinct(replies) /\ r.id \notin Ids(replies) => Distinct(replies')
    BY <2>1, <2>2, AppendIds DEF TransportInv, Types
  <2>4. Types'
    BY <1>1, <1>3, <2>1, <2>3 DEF TransportInv, Types
  <2>5. OnePlace'
    <3>1. \A k \in 1..8 \ {5} : Stages'[k] \subseteq Stages[k]
      BY <1>1, <1>3, <2>1, StagesAre, Eight DEF Heads
    <3>2. Stages'[5] = Stages[5] \cup {r.id} /\ r.id \notin Stages'[3]
      BY <1>5, <2>3, StagesAre
    <3>3. Apart(Stages')
      BY <1>5, <3>1, <3>2, Move DEF TransportInv, OnePlace
    <3>4. \A k \in 1..8 : Stages'[k] \subseteq 1..counter
      BY <1>5, <3>1, <3>2 DEF TransportInv, OnePlace
    <3>5. QED
      BY <1>1, <1>5, <2>1, <2>3, <3>3, <3>4 DEF TransportInv, OnePlace, DistinctHeads
  <2>6. Registered'
    <3>1. \A t \in Travelling' : t \in Travelling \/ t = a
      BY <1>1, <1>3, <2>1, <2>3 DEF Travelling
    <3>2. r \in Travelling
      BY <1>3 DEF Travelling
    <3>3. QED
      BY <1>1, <2>2, <3>1, <3>2 DEF TransportInv, Registered, Heads
  <2>7. Once'
    <3>1. Unexecuted' \subseteq Unexecuted
      BY <1>1, <1>3, <2>1 DEF Unexecuted
    <3>2. a.of \notin Callers
      BY <1>9, <2>2, TransportAssumption
    <3>3. QED
      BY <1>1, <2>3, <3>1, <3>2 DEF TransportInv, Once, Heads
  <2>8. NoneUnanswered'
    BY <1>4, <1>7, <2>1, <2>3, UnansweredIs
  <2>9. QED
    BY <1>8, <2>4, <2>5, <2>6, <2>7, <2>8 DEF TransportInv
<1>10. CASE r.of # Watchdog
  <2>1. listener' = listener /\ replies' = replies /\ pool' = Append(pool, r)
    BY <1>6, <1>10 DEF Receive
  <2> HIDE DEF r
  <2>2. /\ pool' \in Seq(Requests) /\ Ids(pool') = Ids(pool) \cup {r.id} /\ Elems(pool') = Elems(pool) \cup {r}
        /\ Distinct(pool) /\ r.id \notin Ids(pool) => Distinct(pool')
    BY <1>3, <2>1, AppendIds DEF TransportInv, Types
  <2>3. \A k \in DOMAIN pool' : pool'[k].of \in Callers
    <3>1. \A s \in Elems(pool) : s.of \in Callers
      BY DEF TransportInv, Types, Elems
    <3>2. r.of \in Callers
      BY <1>3, <1>10 DEF Senders
    <3>3. QED
      BY <2>2, <3>1, <3>2 DEF Elems
  <2>4. Types'
    BY <1>1, <1>3, <2>1, <2>2, <2>3 DEF TransportInv, Types
  <2>5. OnePlace'
    <3>1. \A k \in 1..8 \ {4} : Stages'[k] \subseteq Stages[k]
      BY <1>1, <1>3, <2>1, StagesAre, Eight DEF Heads
    <3>2. Stages'[4] = Stages[4] \cup {r.id} /\ r.id \notin Stages'[3]
      BY <1>5, <2>2, StagesAre
    <3>3. Apart(Stages')
      BY <1>5, <3>1, <3>2, Move DEF TransportInv, OnePlace
    <3>4. \A k \in 1..8 : Stages'[k] \subseteq 1..counter
      BY <1>5, <3>1, <3>2 DEF TransportInv, OnePlace
    <3>5. QED
      BY <1>1, <1>5, <2>1, <2>2, <3>3, <3>4 DEF TransportInv, OnePlace, DistinctHeads
  <2>6. Registered'
    <3>1. Travelling' \subseteq Travelling
      BY <1>1, <1>3, <2>1, <2>2 DEF Travelling
    <3>2. QED
      BY <1>1, <3>1 DEF TransportInv, Registered, Heads
  <2>7. Once'
    <3>1. Unexecuted' \subseteq Unexecuted
      BY <1>1, <1>3, <2>1, <2>2 DEF Unexecuted
    <3>2. QED
      BY <1>1, <2>1, <3>1 DEF TransportInv, Once, Heads
  <2>8. NoneUnanswered'
    BY <1>4, <1>7, <2>1, <2>2, UnansweredIs
  <2>9. QED
    BY <1>8, <2>4, <2>5, <2>6, <2>7, <2>8 DEF TransportInv
<1>11. QED
  BY <1>9, <1>10

LEMMA ExecuteStep ==
  ASSUME TransportInv, Execute
  PROVE  TransportInv'
<1> DEFINE r == Head(pool)
           a == Reply(r, IF r.of \in Failing THEN 0 ELSE 1)
<1>1. UNCHANGED <<running, socket, counter, requests, channel, pc, promise, answer, sender, receiver, listener, inflight,
                  writer, up, down, broken>>
  BY DEF Execute, client, net
<1>2. /\ pool # << >> /\ pool' = Tail(pool) /\ replies' = Append(replies, a)
      /\ executed' = [executed EXCEPT ![r.of] = @ + 1]
      /\ executed \in [Callers -> {0, 1}] /\ pool \in Seq(Requests)
  BY DEF Execute, TransportInv, Types
<1>3. /\ pool' \in Seq(Requests) /\ r \in Requests /\ r \in Elems(pool)
      /\ Ids(pool) = Ids(pool') \cup {r.id} /\ Elems(pool) = Elems(pool') \cup {r}
      /\ Distinct(pool) => Distinct(pool') /\ r.id \notin Ids(pool')
  BY <1>2, TailIds
<1>4. (\A s \in Elems(pool) : s.of \in Callers) /\ r.of \in Callers /\ r.id \in Nat /\ r.of \in Senders
  BY <1>3 DEF TransportInv, Types, Elems, Requests
<1>5. a \in Answers /\ a.id = r.id /\ a.of = r.of
  BY <1>4, ReplyIs
<1> HIDE DEF a, r
<1>6. /\ replies' \in Seq(Answers) /\ Ids(replies') = Ids(replies) \cup {r.id} /\ Elems(replies') = Elems(replies) \cup {a}
      /\ Distinct(replies) /\ r.id \notin Ids(replies) => Distinct(replies')
  BY <1>2, <1>5, AppendIds DEF TransportInv, Types
<1>7. r \in Unexecuted /\ r \in Travelling /\ executed[r.of] = 0 /\ pc[r.of] # "idle"
  BY <1>3, <1>4 DEF Unexecuted, Travelling, TransportInv, Once
<1>8. executed' \in [Callers -> {0, 1}] /\ executed'[r.of] = 1 /\ \A c \in Callers : c # r.of => executed'[c] = executed[c]
  BY <1>2, <1>4, <1>7
<1>9. Types'
  <2>1. \A k \in DOMAIN pool' : pool'[k].of \in Callers
    BY <1>3, <1>4 DEF Elems
  <2>2. QED
    BY <1>1, <1>3, <1>6, <1>8, <2>1 DEF TransportInv, Types
<1>10. OnePlace' /\ \A k \in 1..8 : k # 5 => r.id \notin Stages'[k]
  <2>1. \A k \in 1..8 \ {5} : Stages'[k] \subseteq Stages[k]
    BY <1>1, <1>3, StagesAre, Eight DEF Heads
  <2>2. Distinct(pool') /\ r.id \notin Stages'[4] /\ r.id \in Stages[4] /\ Stages'[5] = Stages[5] \cup {r.id}
    BY <1>3, <1>6, StagesAre DEF TransportInv, OnePlace
  <2>3. Apart(Stages')
    BY <2>1, <2>2, Move DEF TransportInv, OnePlace
  <2>4. r.id \notin Stages[5]
    BY <2>2 DEF TransportInv, OnePlace, Apart
  <2>5. Distinct(replies')
    BY <1>6, <2>4, StagesAre DEF TransportInv, OnePlace
  <2>6. \A k \in 1..8 : Stages'[k] \subseteq 1..counter
    BY <2>1, <2>2 DEF TransportInv, OnePlace
  <2>7. OnePlace'
    BY <1>1, <2>2, <2>3, <2>5, <2>6 DEF TransportInv, OnePlace, DistinctHeads
  <2>8. \A k \in 1..8 : k # 5 => r.id \notin Stages'[k]
    BY <2>2, <2>3 DEF Apart
  <2>9. QED
    BY <2>7, <2>8
<1>11. Registered'
  <2>1. \A t \in Travelling' : t \in Travelling \/ t = a
    BY <1>1, <1>3, <1>6 DEF Travelling
  <2>2. QED
    BY <1>1, <1>5, <1>7, <2>1 DEF TransportInv, Registered, Heads
<1>12. Alive' /\ Stream' /\ Registry'
  BY <1>1 DEF TransportInv, Alive, Stream, Registry
<1>13. Once'
  <2>1. \A s \in Unexecuted' : s \in Unexecuted /\ s.id # r.id
    <3>1. r.id \notin Ids(channel') /\ r.id \notin Held(sender') /\ r.id \notin Ids(up') /\ r.id \notin Ids(pool')
      BY <1>10, StagesAre
    <3>2. QED
      BY <1>1, <1>3, <3>1, IdsOfElems DEF Unexecuted
  <2>2. \A s \in Unexecuted' : s.of \in Callers => s.of # r.of
    BY <1>4, <1>7, <2>1 DEF TransportInv, Once
  <2>3. \A s \in Unexecuted' : s.of \in Callers => executed'[s.of] = 0 /\ pc[s.of] # "idle"
    BY <1>8, <2>1, <2>2 DEF TransportInv, Once
  <2>4. \A c \in Callers : executed[c] = 1 => executed'[c] = 1
    BY <1>8
  <2>5. \A s \in Elems(replies') \cup Only(writer) \cup Only(receiver) : s.of \in Callers => executed'[s.of] = 1
    BY <1>5, <1>6, <1>8, <2>4 DEF TransportInv, Once
  <2>6. \A c \in Callers : executed'[c] = 1 => pc[c] # "idle"
    BY <1>7, <1>8 DEF TransportInv, Once
  <2>7. running => \A i \in Heads : requests[i] \in Callers => executed'[requests[i]] = 1
    BY <2>4 DEF TransportInv, Once
  <2>8. QED
    BY <1>1, <2>1, <2>3, <2>5, <2>6, <2>7 DEF TransportInv, Once, Heads
<1>14. Told'
  BY <1>1, <1>8 DEF TransportInv, Told
<1>15. NoneUnanswered'
  BY <1>1, <1>3, <1>6, UnansweredIs DEF TransportInv
<1>16. QED
  BY <1>9, <1>10, <1>11, <1>12, <1>13, <1>14, <1>15 DEF TransportInv

LEMMA TakeReplyStep ==
  ASSUME TransportInv, TakeReply
  PROVE  TransportInv'
<1> DEFINE r == Head(replies)
<1>1. UNCHANGED <<running, socket, counter, requests, channel, pc, promise, answer, sender, receiver, pool, executed, up,
                  down, broken>>
  BY DEF TakeReply, client, net
<1>2. /\ listener \in {"listen", "ping"} /\ writer = None /\ replies # << >> /\ replies \in Seq(Answers)
      /\ replies' = Tail(replies) /\ writer' = (IF r.id \in inflight THEN r ELSE None)
      /\ inflight' = inflight \ {r.id}
  BY DEF TakeReply, TakenOut, TransportInv, Types
<1>3. /\ replies' \in Seq(Answers) /\ r \in Answers
      /\ Ids(replies) = Ids(replies') \cup {r.id} /\ Elems(replies) = Elems(replies') \cup {r}
      /\ Distinct(replies) => Distinct(replies') /\ r.id \notin Ids(replies')
  BY <1>2, TailIds
<1> HIDE DEF r
<1>4. inflight = Ids(pool) \cup Ids(replies)
  BY <1>2, UnansweredIs DEF TransportInv
<1>5. writer' = r /\ Held(writer') = {r.id} /\ Only(writer') = {r}
  BY <1>2, <1>3, <1>4, HeldIn, Apartness
<1>6. Types'
  BY <1>1, <1>3, <1>5 DEF TransportInv, Types
<1>7. r.id \in Stages[5] /\ r.id \notin Ids(pool) /\ r.id \notin Stages'[5] /\ r.id \notin Ids(replies') /\ Distinct(replies')
  <2>1. r.id \in Stages[5]
    BY <1>3, StagesAre
  <2>2. r.id \notin Stages[4]
    BY <2>1 DEF TransportInv, OnePlace, Apart
  <2>3. QED
    BY <1>3, <2>1, <2>2, StagesAre DEF TransportInv, OnePlace
<1>8. OnePlace'
  <2>1. \A k \in 1..8 \ {6} : Stages'[k] \subseteq Stages[k]
    BY <1>1, <1>3, StagesAre, Eight DEF Heads
  <2>2. Stages'[6] = {r.id}
    BY <1>5, StagesAre
  <2>3. Apart(Stages')
    BY <1>7, <2>1, <2>2, Move DEF TransportInv, OnePlace
  <2>4. \A k \in 1..8 : Stages'[k] \subseteq 1..counter
    BY <1>7, <2>1, <2>2 DEF TransportInv, OnePlace
  <2>5. QED
    BY <1>1, <1>7, <2>3, <2>4 DEF TransportInv, OnePlace, DistinctHeads
<1>9. Registered'
  <2>1. Travelling' \subseteq Travelling
    BY <1>1, <1>3, <1>5 DEF Travelling
  <2>2. QED
    BY <1>1, <2>1 DEF TransportInv, Registered, Heads
<1>10. Alive' /\ Stream' /\ Registry' /\ Told'
  BY <1>1 DEF TransportInv, Alive, Stream, Registry, Told
<1>11. Once'
  BY <1>1, <1>3, <1>5 DEF TransportInv, Once, Unexecuted, Heads
<1>12. NoneUnanswered'
  BY <1>1, <1>2, <1>3, <1>4, <1>7, UnansweredIs
<1>13. QED
  BY <1>6, <1>8, <1>9, <1>10, <1>11, <1>12 DEF TransportInv

LEMMA FrameIs ==
  ASSUME NEW w \in Answers
  PROVE  /\ Frame(w) \in Seq(Headers \cup Payloads) /\ Len(Frame(w)) = w.size + 1 /\ w.size \in {0, 1}
         /\ Frame(w)[1].part = "header" /\ Frame(w)[1].id = w.id /\ Frame(w)[1].size = w.size
         /\ w.size = 1 => Frame(w)[2].part = "payload" /\ Frame(w)[2].of = w.of
<1> DEFINE h == [part |-> "header", id |-> w.id, size |-> w.size]
           p == [part |-> "payload", of |-> w.of]
<1>1. h \in Headers /\ p \in Payloads /\ w.size \in {0, 1}
  BY DEF Answers, Headers, Payloads
<1>2. h.part = "header" /\ h.id = w.id /\ h.size = w.size /\ p.part = "payload" /\ p.of = w.of
  OBVIOUS
<1>3. Frame(w) = << h >> \o (IF w.size = 0 THEN << >> ELSE << p >>)
  BY DEF Frame
<1> HIDE DEF h, p
<1>4. CASE w.size = 0
  <2>1. Frame(w) = << h >>
    BY <1>3, <1>4
  <2>2. QED
    BY <1>1, <1>2, <1>4, <2>1
<1>5. CASE w.size = 1
  <2>1. << h >> \in Seq(Headers \cup Payloads) /\ << p >> \in Seq(Headers \cup Payloads)
        /\ Len(<< h >>) = 1 /\ Len(<< p >>) = 1 /\ << h >>[1] = h /\ << p >>[1] = p
    BY <1>1
  <2>2. Frame(w) = << h >> \o << p >>
    BY <1>3, <1>5
  <2>3. /\ Frame(w) \in Seq(Headers \cup Payloads) /\ Len(Frame(w)) = 2
        /\ \A k \in 1..2 : Frame(w)[k] = IF k <= 1 THEN << h >>[k] ELSE << p >>[k - 1]
    BY <2>1, <2>2, ConcatProperties
  <2>4. Frame(w)[1] = h /\ Frame(w)[2] = p
    BY <2>1, <2>3
  <2>5. QED
    BY <1>1, <1>2, <1>5, <2>3, <2>4
<1>6. QED
  BY <1>1, <1>4, <1>5

LEMMA WriteReplyStep ==
  ASSUME TransportInv, WriteReply
  PROVE  TransportInv'
<1> DEFINE n == Len(down)
           f == Frame(writer)
<1>1. UNCHANGED <<running, socket, counter, requests, channel, pc, promise, answer, sender, receiver, listener, inflight,
                  pool, replies, executed, up, broken>>
  BY DEF WriteReply, client
<1>2. /\ writer \in Answers /\ ~broken /\ down' = down \o f /\ writer' = None /\ down \in Seq(Headers \cup Payloads)
      /\ Held(writer) = {writer.id} /\ Only(writer) = {writer} /\ Held(writer') = {} /\ Only(writer') = {}
  BY HeldIn, Apartness DEF WriteReply, Lost, TransportInv, Types
<1>3. /\ f \in Seq(Headers \cup Payloads) /\ Len(f) = writer.size + 1 /\ writer.size \in {0, 1}
      /\ f[1].part = "header" /\ f[1].id = writer.id /\ f[1].size = writer.size
      /\ writer.size = 1 => f[2].part = "payload" /\ f[2].of = writer.of
  BY <1>2, FrameIs
<1>4. /\ down' \in Seq(Headers \cup Payloads) /\ n \in Nat /\ Len(down') = n + writer.size + 1
      /\ DOMAIN down = 1..n /\ DOMAIN down' = 1..(n + writer.size + 1)
      /\ \A k \in 1..n : down'[k] = down[k]
      /\ down'[n + 1] = f[1] /\ (writer.size = 1 => down'[n + 2] = f[2])
  <2>1. down' \in Seq(Headers \cup Payloads) /\ n \in Nat /\ Len(down') = n + writer.size + 1
    BY <1>2, <1>3, ConcatProperties, LenProperties
  <2>2. \A k \in 1..Len(down') : down'[k] = IF k <= n THEN down[k] ELSE f[k - n]
    BY <1>2, <1>3, ConcatProperties
  <2>3. \A k \in 1..n : k \in 1..Len(down') /\ k <= n
    BY <1>3, <2>1
  <2>4. n + 1 \in 1..Len(down') /\ ~(n + 1 <= n) /\ (n + 1) - n = 1
    BY <1>3, <2>1
  <2>5. writer.size = 1 => n + 2 \in 1..Len(down') /\ ~(n + 2 <= n) /\ (n + 2) - n = 2
    BY <1>3, <2>1
  <2>6. DOMAIN down = 1..n /\ DOMAIN down' = 1..Len(down')
    BY <1>2, <2>1, LenProperties
  <2>7. QED
    BY <2>1, <2>2, <2>3, <2>4, <2>5, <2>6
<1> HIDE DEF n, f
<1>5. \A k \in DOMAIN down' : \/ k \in DOMAIN down /\ down'[k] = down[k] /\ k # n + 1
                              \/ k = n + 1
                              \/ k = n + 2 /\ down'[k].part # "header" /\ k # n + 1
  BY <1>3, <1>4
<1>6. Heads' = Heads \cup {writer.id}
  <2>1. \A k \in DOMAIN down : k \in DOMAIN down' /\ down'[k] = down[k]
    BY <1>3, <1>4
  <2>2. n + 1 \in DOMAIN down'
    BY <1>3, <1>4
  <2>3. Heads' \subseteq Heads \cup {writer.id}
    BY <1>3, <1>4, <1>5 DEF Heads
  <2>4. Heads \subseteq Heads'
    BY <2>1 DEF Heads
  <2>5. writer.id \in Heads'
    <3>1. \A k \in DOMAIN down' : down'[k].part = "header" => down'[k].id \in Heads'
      BY DEF Heads
    <3>2. QED
      BY <1>3, <1>4, <2>2, <3>1
  <2>6. QED
    BY <2>3, <2>4, <2>5
<1>7. Types'
  BY <1>1, <1>2, <1>4 DEF TransportInv, Types
<1>8. OnePlace'
  <2>1. \A k \in 1..8 \ {7} : Stages'[k] \subseteq Stages[k]
    BY <1>1, <1>2, StagesAre, Eight
  <2>2. writer.id \in Stages[6] /\ writer.id \notin Stages'[6] /\ Stages'[7] = Stages[7] \cup {writer.id}
    BY <1>2, <1>6, StagesAre
  <2>3. Apart(Stages')
    BY <2>1, <2>2, Move DEF TransportInv, OnePlace
  <2>4. writer.id \notin Heads
    <3>1. writer.id \notin Stages[7]
      BY <2>2 DEF TransportInv, OnePlace, Apart
    <3>2. QED
      BY <3>1, StagesAre
  <2>5. \A k \in DOMAIN down : down[k].part = "header" => down[k].id # writer.id
    BY <2>4, HeaderIds
  <2>6. DistinctHeads'
    BY <1>3, <1>4, <1>5, <2>5 DEF TransportInv, OnePlace, DistinctHeads
  <2>7. \A k \in 1..8 : Stages'[k] \subseteq 1..counter
    BY <2>1, <2>2 DEF TransportInv, OnePlace
  <2>8. QED
    BY <1>1, <2>3, <2>6, <2>7 DEF TransportInv, OnePlace
<1>9. running => writer.id \in DOMAIN requests /\ requests[writer.id] = writer.of
  BY <1>2 DEF TransportInv, Registered, Travelling
<1>10. Registered'
  <2>1. Travelling' \subseteq Travelling
    BY <1>1, <1>2 DEF Travelling
  <2>2. QED
    BY <1>1, <1>6, <1>9, <2>1 DEF TransportInv, Registered
<1>11. Stream'
  <2> SUFFICES ASSUME running
               PROVE  Stream'
    BY <1>1 DEF Stream
  <2>1. ASSUME NEW k \in 1..Len(down') - 1
        PROVE  IF down'[k].part = "header" /\ down'[k].size = 1
               THEN down'[k + 1].part = "payload" /\ down'[k + 1].of = requests[down'[k].id]
               ELSE down'[k + 1].part = "header"
    <3>1. k \in Nat /\ (k < n \/ k = n \/ (k = n + 1 /\ writer.size = 1))
      BY <1>3, <1>4
    <3>2. CASE k < n
      <4>1. k \in 1..n - 1 /\ down'[k] = down[k] /\ down'[k + 1] = down[k + 1]
        BY <1>4, <3>1, <3>2
      <4>2. QED
        BY <4>1 DEF TransportInv, Stream, n
    <3>3. CASE k = n
      <4>1. down # << >> /\ down'[k] = down[n] /\ down'[k + 1].part = "header"
        BY <1>2, <1>3, <1>4, <3>1, <3>3, EmptySeq DEF n
      <4>2. ~(down[n].part = "header" /\ down[n].size = 1)
        BY <1>2, <4>1 DEF TransportInv, Stream, n
      <4>3. QED
        BY <4>1, <4>2
    <3>4. CASE k = n + 1 /\ writer.size = 1
      <4>1. down'[k] = f[1] /\ down'[k + 1] = f[2]
        BY <1>4, <3>4
      <4>2. QED
        BY <1>3, <1>9, <3>4, <4>1
    <3>5. QED
      BY <3>1, <3>2, <3>3, <3>4
  <2>2. ~(down'[Len(down')].part = "header" /\ down'[Len(down')].size = 1)
    BY <1>3, <1>4
  <2>3. down' # << >>
    BY <1>3, <1>4
  <2>4. down # << >> => down'[1] = down[1]
    BY <1>2, <1>4, EmptySeq DEF n
  <2>5. down = << >> => down'[1].part = "header"
    BY <1>3, <1>4 DEF n
  <2>6. QED
    BY <1>1, <1>2, <2>1, <2>2, <2>3, <2>4, <2>5 DEF TransportInv, Stream
<1>12. Alive' /\ Registry' /\ Told' /\ NoneUnanswered'
  BY <1>1 DEF TransportInv, Alive, Registry, Told, NoneUnanswered
<1>13. Once'
  <2>1. Unexecuted' = Unexecuted
    BY <1>1 DEF Unexecuted
  <2>2. writer.of \in Callers => executed[writer.of] = 1
    BY <1>2 DEF TransportInv, Once
  <2>3. QED
    BY <1>1, <1>2, <1>6, <1>9, <2>1, <2>2 DEF TransportInv, Once
<1>14. QED
  BY <1>7, <1>8, <1>10, <1>11, <1>12, <1>13 DEF TransportInv

LEMMA WriteReplyFailsStep ==
  ASSUME TransportInv, WriteReplyFails
  PROVE  TransportInv'
<1>1. UNCHANGED <<running, socket, counter, requests, channel, pc, promise, answer, sender, receiver, listener, inflight,
                  pool, replies, executed, up, down, broken>>
  BY DEF WriteReplyFails, client, net
<1>2. writer' = None /\ Held(writer') = {} /\ Only(writer') = {}
  BY HeldIn DEF WriteReplyFails
<1>3. Types' /\ Alive'
  BY <1>1, <1>2 DEF TransportInv, Types, Alive
<1>4. OnePlace'
  <2>1. \A k \in 1..8 : Stages'[k] \subseteq Stages[k]
    BY <1>1, <1>2, StagesAre, Eight DEF Heads
  <2>2. Apart(Stages')
    BY <2>1, Shrink DEF TransportInv, OnePlace
  <2>3. QED
    BY <1>1, <2>1, <2>2 DEF TransportInv, OnePlace, DistinctHeads
<1>5. Registered'
  BY <1>1, <1>2 DEF TransportInv, Registered, Travelling, Heads
<1>6. Stream' /\ Registry' /\ Told' /\ NoneUnanswered'
  BY <1>1 DEF TransportInv, Stream, Registry, Told, NoneUnanswered
<1>7. Once'
  BY <1>1, <1>2 DEF TransportInv, Once, Unexecuted, Heads
<1>8. QED
  BY <1>3, <1>4, <1>5, <1>6, <1>7 DEF TransportInv

LEMMA ListenerEndsStep ==
  ASSUME TransportInv, ListenerEnds
  PROVE  TransportInv'
<1>1. UNCHANGED <<running, socket, counter, requests, channel, pc, promise, answer, sender, receiver, inflight,
                  pool, replies, writer, executed, up, down, broken>> /\ listener' = "draining"
  BY DEF ListenerEnds, client, net
<1>2. Types' /\ Alive'
  BY <1>1 DEF TransportInv, Types, Alive
<1>3. OnePlace' /\ Registered' /\ Stream'
  BY <1>1 DEF TransportInv, OnePlace, Stages, Heads, DistinctHeads, Registered, Travelling, Stream
<1>4. Registry' /\ Once' /\ Told' /\ NoneUnanswered'
  BY <1>1 DEF TransportInv, Registry, Once, Unexecuted, Heads, Told, NoneUnanswered
<1>5. QED
  BY <1>2, <1>3, <1>4 DEF TransportInv

LEMMA ResetStep ==
  ASSUME TransportInv, Reset
  PROVE  TransportInv'
<1>1. UNCHANGED <<running, socket, counter, requests, channel, pc, promise, answer, sender, receiver, pool, executed, up,
                  down, broken>>
  BY DEF Reset, client, net
<1>2. /\ listener' = "gone" /\ replies' = << >> /\ writer' = None
      /\ Held(writer') = {} /\ Only(writer') = {} /\ Ids(replies') = {} /\ Elems(replies') = {} /\ Distinct(replies')
  BY HeldIn, EmptyIds DEF Reset
<1>3. Types'
  BY <1>1, <1>2 DEF TransportInv, Types
<1>4. OnePlace'
  <2>1. \A k \in 1..8 : Stages'[k] \subseteq Stages[k]
    BY <1>1, <1>2, StagesAre, Eight DEF Heads
  <2>2. Apart(Stages')
    BY <2>1, Shrink DEF TransportInv, OnePlace
  <2>3. QED
    BY <1>1, <1>2, <2>1, <2>2 DEF TransportInv, OnePlace, DistinctHeads
<1>5. Registered'
  BY <1>1, <1>2 DEF TransportInv, Registered, Travelling, Heads
<1>6. Alive' /\ Stream' /\ Registry' /\ Told' /\ NoneUnanswered'
  BY <1>1, <1>2 DEF TransportInv, Alive, Stream, Registry, Told, NoneUnanswered
<1>7. Once'
  BY <1>1, <1>2 DEF TransportInv, Once, Unexecuted, Heads
<1>8. QED
  BY <1>3, <1>4, <1>5, <1>6, <1>7 DEF TransportInv

-----------------------------------------------------------------------------
(* The environment, and the invariant *)

LEMMA BreakStep ==
  ASSUME TransportInv, Break
  PROVE  TransportInv'
<1>1. UNCHANGED <<running, socket, counter, requests, channel, pc, promise, answer, sender, receiver, listener, inflight,
                  pool, replies, writer, executed>> /\ broken' = TRUE
  BY DEF Break, client, server
<1>2. PICK m \in 0..Len(up) : up' = SubSeq(up, 1, m)
  BY DEF Break
<1>3. PICK n \in 0..Len(down) : down' = SubSeq(down, 1, n)
  BY DEF Break
<1>4. up \in Seq(Requests) /\ down \in Seq(Headers \cup Payloads)
  BY DEF TransportInv, Types
<1>5. up' \in Seq(Requests) /\ Ids(up') \subseteq Ids(up) /\ Elems(up') \subseteq Elems(up) /\ (Distinct(up) => Distinct(up'))
  BY <1>2, <1>4, PrefixIds
<1>6. /\ down' \in Seq(Headers \cup Payloads) /\ Len(down') = n /\ DOMAIN down' = 1..n /\ 1..n \subseteq DOMAIN down
      /\ \A k \in 1..n : down'[k] = down[k]
  BY <1>3, <1>4, PrefixIds
<1>7. Heads' \subseteq Heads /\ DistinctHeads'
  BY <1>6 DEF Heads, DistinctHeads, TransportInv, OnePlace
<1>8. Types'
  BY <1>1, <1>5, <1>6 DEF TransportInv, Types
<1>9. OnePlace'
  <2>1. \A k \in 1..8 : Stages'[k] \subseteq Stages[k]
    BY <1>1, <1>5, <1>7, StagesAre, Eight
  <2>2. Apart(Stages')
    BY <2>1, Shrink DEF TransportInv, OnePlace
  <2>3. QED
    BY <1>1, <1>5, <1>7, <2>1, <2>2 DEF TransportInv, OnePlace
<1>10. Registered'
  <2>1. Travelling' \subseteq Travelling
    BY <1>1, <1>5 DEF Travelling
  <2>2. QED
    BY <1>1, <1>7, <2>1 DEF TransportInv, Registered
<1>11. Stream'
  <2>1. Len(down) \in Nat /\ n \in 0..Len(down)
    BY <1>4, LenProperties
  <2>2. \A k \in 1..n - 1 : k \in 1..Len(down) - 1 /\ down'[k] = down[k] /\ down'[k + 1] = down[k + 1]
    BY <1>6, <2>1
  <2>3. down' # << >> => down # << >> /\ down'[1] = down[1]
    BY <1>4, <1>6, <2>1, EmptySeq
  <2>4. QED
    BY <1>1, <1>6, <2>2, <2>3 DEF TransportInv, Stream
<1>12. Alive' /\ Registry' /\ Told' /\ NoneUnanswered'
  BY <1>1 DEF TransportInv, Alive, Registry, Told, NoneUnanswered
<1>13. Once'
  <2>1. Unexecuted' \subseteq Unexecuted
    BY <1>1, <1>5 DEF Unexecuted
  <2>2. QED
    BY <1>1, <1>7, <2>1 DEF TransportInv, Once
<1>14. QED
  BY <1>8, <1>9, <1>10, <1>11, <1>12, <1>13 DEF TransportInv

LEMMA NothingStep ==
  ASSUME TransportInv,
         UNCHANGED <<running, socket, counter, requests, channel, pc, promise, answer, sender, receiver, listener,
                     inflight, pool, replies, writer, executed, up, down, broken>>
  PROVE  TransportInv'
<1>1. Types' /\ Alive'
  BY DEF TransportInv, Types, Alive
<1>2. OnePlace' /\ Registered' /\ Stream'
  BY DEF TransportInv, OnePlace, Stages, Heads, DistinctHeads, Registered, Travelling, Stream
<1>3. Registry' /\ Once' /\ Told' /\ NoneUnanswered'
  BY DEF TransportInv, Registry, Once, Unexecuted, Heads, Told, NoneUnanswered
<1>4. QED
  BY <1>1, <1>2, <1>3 DEF TransportInv

LEMMA TransportInit ==
  ASSUME Init
  PROVE  TransportInv
<1>1. /\ Ids(channel) = {} /\ Ids(up) = {} /\ Ids(pool) = {} /\ Ids(replies) = {} /\ Heads = {}
      /\ Elems(channel) = {} /\ Elems(up) = {} /\ Elems(pool) = {} /\ Elems(replies) = {}
      /\ Held(sender) = {} /\ Held(writer) = {} /\ Held(receiver) = {}
      /\ Only(sender) = {} /\ Only(writer) = {} /\ Only(receiver) = {}
  BY EmptyIds, HeldIn DEF Init, Heads
<1>2. Types
  <2>1. requests \in [DOMAIN requests -> Senders] /\ DOMAIN requests = {}
    BY DEF Init, NoRequests
  <2>2. << >> \in Seq(Requests) /\ << >> \in Seq(Answers) /\ << >> \in Seq(Headers \cup Payloads)
    OBVIOUS
  <2>3. DOMAIN pool = {}
    BY DEF Init
  <2>4. QED
    BY <2>1, <2>2, <2>3 DEF Init, Types
<1>3. OnePlace
  <2>1. \A k \in 1..8 : Stages[k] = {}
    BY <1>1, StagesAre, Eight
  <2>2. QED
    BY <2>1, EmptyIds DEF Init, OnePlace, Apart, DistinctHeads
<1>4. Alive /\ Registered
  BY <1>1, NoneAssumption DEF Init, Alive, Registered, Travelling
<1>5. Stream
  BY DEF Init, Stream
<1>6. Registry
  BY DEF Init, Registry, NoRequests
<1>7. Once
  BY <1>1 DEF Init, Once, Unexecuted
<1>8. Told
  BY NoneAssumption DEF Init, Told, Senders
<1>9. NoneUnanswered
  BY <1>1, UnansweredIs DEF Init
<1>10. QED
  BY <1>2, <1>3, <1>4, <1>5, <1>6, <1>7, <1>8, <1>9 DEF TransportInv

LEMMA TransportStep ==
  ASSUME TransportInv, [Next]_vars
  PROVE  TransportInv'
<1>1. CASE \E c \in Senders : Ask(c) \/ Return(c)
  BY <1>1, AskStep, ReturnStep
<1>2. CASE WatchdogResumes \/ PingTimesOut
  BY <1>2, WatchdogResumesStep, PingTimesOutStep
<1>3. CASE Take \/ WriteRequest \/ WriteFails
  BY <1>3, TakeStep, WriteRequestStep, WriteFailsStep
<1>4. CASE ReceiveHeader \/ ReceivePayload \/ ReadFails
  BY <1>4, ReceiveHeaderStep, ReceivePayloadStep, ReadFailsStep
<1>5. CASE Receive \/ Execute \/ TakeReply \/ WriteReply
  BY <1>5, ReceiveStep, ExecuteStep, TakeReplyStep, WriteReplyStep
<1>6. CASE WriteReplyFails \/ ListenerEnds \/ Reset
  BY <1>6, WriteReplyFailsStep, ListenerEndsStep, ResetStep
<1>7. CASE Break
  BY <1>7, BreakStep
<1>8. CASE Hang \/ UNCHANGED vars
  BY <1>8, NothingStep DEF Hang, vars, client, server, net
<1>9. QED
  BY <1>1, <1>2, <1>3, <1>4, <1>5, <1>6, <1>7, <1>8 DEF Next

LEMMA TransportInvariant == Spec => []TransportInv
<1>1. Init => TransportInv
  BY TransportInit
<1>2. TransportInv /\ [Next]_vars => TransportInv'
  BY TransportStep
<1>3. QED
  BY <1>1, <1>2, PTL DEF Spec

-----------------------------------------------------------------------------
(* What follows *)

\* Nobody is forgotten, however many callers there are and in whatever order answers,
\* failures, timeouts and stops come: a caller that waits with nothing in its future is in
\* m_requests under exactly one id, or response_receive has its entry in hand.
THEOREM NobodyIsForgotten == Spec => []NoneForgotten
<1>1. TransportInv => NoneForgotten
  <2> SUFFICES ASSUME TransportInv, NEW c \in Senders, pc[c] \in {"queued", "waiting"}, promise[c] = None,
                      ~(receiver \notin {None, Done} /\ receiver.of = c)
               PROVE  running /\ Cardinality({i \in DOMAIN requests : requests[i] = c}) = 1
    BY DEF NoneForgotten
  <2>1. PICK i \in DOMAIN requests : requests[i] = c
    BY DEF TransportInv, Registry
  <2>2. running
    BY <2>1 DEF TransportInv, Registry, NoRequests
  <2>3. {j \in DOMAIN requests : requests[j] = c} = {i}
    BY <2>1 DEF TransportInv, Registry
  <2>4. QED
    BY <2>2, <2>3, FS_Singleton
<1>2. QED
  BY <1>1, TransportInvariant, PTL

\* The stream of answers never slips, for any number of requests in flight and any loss:
\* response_receive reads a header exactly where send_response wrote one.
THEOREM StreamInStep == Spec => []InStep
<1>1. TransportInv => InStep
  <2>1. ASSUME TransportInv, receiver = None, socket, down # << >>
        PROVE  Head(down).part = "header"
    BY <2>1, HeaderRead
  <2>2. QED
    BY <2>1 DEF InStep
<1>2. QED
  BY <1>1, TransportInvariant, PTL

\* The table of the server holds exactly the ids whose request the worker has still to
\* execute or whose answer send_response has still to take, while the connection is up.
THEOREM NoAnswerLost == Spec => []NoneUnanswered
<1>1. TransportInv => NoneUnanswered
  BY DEF TransportInv
<1>2. QED
  BY <1>1, TransportInvariant, PTL

-----------------------------------------------------------------------------
(* The transport implements Exchange *)

LEMMA ExchangeStutter ==
  ASSUME executed' = executed,
         \A c \in Callers : answer'[c] = answer[c] /\ (pc'[c] = "idle" <=> pc[c] = "idle")
  PROVE  UNCHANGED E!vars
BY DEF E!vars

LEMMA ExchangeAsk ==
  ASSUME TransportInv, NEW c \in Callers, Ask(c)
  PROVE  E!Ask(c)
<1>1. /\ pc[c] = "idle" /\ pc \in [Senders -> {"idle", "queued", "waiting", "done"}] /\ c \in Senders
      /\ answer \in [Senders -> Errors \cup Senders \cup {None}] /\ executed' = executed
  BY DEF Ask, TransportInv, Types, Senders, server
<1>2. pc'[c] # "idle" /\ \A d \in Callers : d # c => pc'[d] = pc[d]
  BY <1>1 DEF Ask, Senders
<1>3. {d \in Callers : pc'[d] # "idle"} = {d \in Callers : pc[d] # "idle"} \cup {c}
  BY <1>2
<1>4. answer[c] = None
  BY <1>1 DEF TransportInv, Told
<1>5. \E a \in Errors \cup {None} : \A d \in Callers : answer'[d] = IF d = c THEN a ELSE answer[d]
  <2>1. CASE running
    BY <1>4, <2>1 DEF Ask
  <2>2. CASE ~running
    <3>1. EAGAIN \in Errors /\ \A d \in Callers : answer'[d] = IF d = c THEN EAGAIN ELSE answer[d]
      BY <1>1, <2>2 DEF Ask, Errors, Senders
    <3>2. QED
      BY <3>1
  <2>3. QED
    BY <2>1, <2>2
<1>6. PICK a \in Errors \cup {None} : \A d \in Callers : answer'[d] = IF d = c THEN a ELSE answer[d]
  BY <1>5
<1>7. [d \in Callers |-> answer'[d]] = [[d \in Callers |-> answer[d]] EXCEPT ![c] = a]
  BY <1>6
<1>8. QED
  BY <1>1, <1>3, <1>7 DEF E!Ask

LEMMA ExchangeReturn ==
  ASSUME TransportInv, NEW c \in Callers, Return(c)
  PROVE  E!Return(c)
<1>1. /\ pc[c] = "waiting" /\ promise[c] # None /\ c \in Senders /\ executed' = executed
      /\ pc \in [Senders -> {"idle", "queued", "waiting", "done"}]
      /\ pc' = [pc EXCEPT ![c] = "done"] /\ answer' = [answer EXCEPT ![c] = promise[c]]
      /\ answer \in [Senders -> Errors \cup Senders \cup {None}]
  BY DEF Return, TransportInv, Types, Senders, server
<1>2. answer[c] = None /\ promise[c] \in Errors \cup (IF executed[c] = 1 THEN {c} ELSE {})
  BY <1>1 DEF TransportInv, Told
<1>3. [d \in Callers |-> answer'[d]] = [[d \in Callers |-> answer[d]] EXCEPT ![c] = promise[c]]
  BY <1>1 DEF Senders
<1>4. {d \in Callers : pc'[d] # "idle"} = {d \in Callers : pc[d] # "idle"}
  BY <1>1 DEF Senders
<1>5. QED
  BY <1>1, <1>2, <1>3, <1>4 DEF E!Return

LEMMA ExchangeExecute ==
  ASSUME TransportInv, Execute
  PROVE  \E c \in Callers : E!Execute(c)
<1> DEFINE c == Head(pool).of
<1>1. /\ UNCHANGED <<pc, answer>> /\ executed' = [executed EXCEPT ![c] = @ + 1]
      /\ pool # << >> /\ pool \in Seq(Requests) /\ executed \in [Callers -> {0, 1}]
  BY DEF Execute, client, TransportInv, Types
<1>2. Head(pool) \in Elems(pool)
  BY <1>1, TailIds
<1>3. c \in Callers
  BY <1>2 DEF TransportInv, Types, Elems
<1>4. executed[c] = 0 /\ pc[c] # "idle"
  BY <1>2, <1>3 DEF TransportInv, Once, Unexecuted
<1> HIDE DEF c
<1>5. executed' = [executed EXCEPT ![c] = 1]
  BY <1>1, <1>3, <1>4
<1>6. E!Execute(c)
  BY <1>1, <1>3, <1>4, <1>5 DEF E!Execute
<1>7. QED
  BY <1>3, <1>6

\* cancel_all lets nobody ask or return.
LEMMA ExchangeCancel ==
  ASSUME NEW status, NEW returned \in SUBSET {Watchdog}, CancelAll(status, returned), NEW c \in Callers
  PROVE  pc'[c] = "idle" <=> pc[c] = "idle"
<1>1. c \in Senders /\ c \notin returned
  BY TransportAssumption DEF Senders
<1>2. QED
  BY <1>1 DEF CancelAll

LEMMA ExchangeStop ==
  ASSUME Stop, NEW c \in Callers
  PROVE  pc'[c] = "idle" <=> pc[c] = "idle"
<1>1. CASE running
  BY <1>1, ExchangeCancel DEF Stop
<1>2. CASE ~running
  BY <1>2 DEF Stop
<1>3. QED
  BY <1>1, <1>2

LEMMA ExchangeStep ==
  ASSUME TransportInv, [Next]_vars
  PROVE  [E!Next]_(E!vars)
<1>1. \A c \in Callers : c \in Senders /\ c # Watchdog
  BY TransportAssumption DEF Senders
<1>2. pc \in [Senders -> {"idle", "queued", "waiting", "done"}] /\ answer \in [Senders -> Errors \cup Senders \cup {None}]
  BY DEF TransportInv, Types
<1>3. ASSUME NEW c \in Senders, Ask(c)
      PROVE  E!Next \/ UNCHANGED E!vars
  <2>1. CASE c \in Callers
    BY <1>3, <2>1, ExchangeAsk DEF E!Next
  <2>2. CASE c = Watchdog
    <3>1. executed' = executed /\ \A d \in Callers : answer'[d] = answer[d] /\ pc'[d] = pc[d]
      BY <1>1, <1>2, <1>3, <2>2 DEF Ask, server
    <3>2. QED
      BY <3>1, ExchangeStutter
  <2>3. QED
    BY <2>1, <2>2 DEF Senders
<1>4. ASSUME NEW c \in Senders, Return(c)
      PROVE  E!Next \/ UNCHANGED E!vars
  <2>1. CASE c \in Callers
    BY <1>4, <2>1, ExchangeReturn DEF E!Next
  <2>2. CASE c = Watchdog
    <3>1. executed' = executed /\ \A d \in Callers : answer'[d] = answer[d] /\ pc'[d] = pc[d]
      BY <1>1, <1>2, <1>4, <2>2 DEF Return, server
    <3>2. QED
      BY <3>1, ExchangeStutter
  <2>3. QED
    BY <2>1, <2>2 DEF Senders
<1>5. CASE WatchdogResumes
  <2>1. executed' = executed
    BY <1>5 DEF WatchdogResumes, server
  <2>2. \A c \in Callers : answer'[c] = answer[c] /\ (pc'[c] = "idle" <=> pc[c] = "idle")
    <3>1. CASE answer[Watchdog] \in Errors
      BY <1>5, <3>1, ExchangeStop DEF WatchdogResumes
    <3>2. CASE answer[Watchdog] \notin Errors
      BY <1>1, <1>2, <1>5, <3>2 DEF WatchdogResumes
    <3>3. QED
      BY <3>1, <3>2
  <2>3. QED
    BY <2>1, <2>2, ExchangeStutter
<1>6. CASE PingTimesOut
  <2>1. executed' = executed
    BY <1>6 DEF PingTimesOut, server
  <2>2. \A c \in Callers : answer'[c] = answer[c]
    BY <1>1, <1>2, <1>6 DEF PingTimesOut, Expire
  <2>3. \A c \in Callers : pc'[c] = "idle" <=> pc[c] = "idle"
    BY <1>6, ExchangeStop DEF PingTimesOut
  <2>4. QED
    BY <2>1, <2>2, <2>3, ExchangeStutter
<1>7. CASE Take
  <2>1. executed' = executed /\ answer' = answer /\ pc' = [pc EXCEPT ![Head(channel).of] = "waiting"]
        /\ channel # << >> /\ channel \in Seq(Requests)
    BY <1>7 DEF Take, server, TransportInv, Types
  <2>2. pc[Head(channel).of] = "queued"
    <3>1. Head(channel) \in Elems(channel)
      BY <2>1, TailIds
    <3>2. QED
      BY <3>1 DEF Elems, TransportInv, Registry
  <2>3. \A c \in Callers : answer'[c] = answer[c] /\ (pc'[c] = "idle" <=> pc[c] = "idle")
    BY <1>1, <1>2, <2>1, <2>2
  <2>4. QED
    BY <2>1, <2>3, ExchangeStutter
<1>8. CASE ReadFails \/ ReceiveHeader
  <2>1. executed' = executed /\ answer' = answer /\ (pc' = pc \/ CancelAll(ECANCELED, {}))
    BY <1>8 DEF ReadFails, ReceiveHeader, server
  <2>2. \A c \in Callers : answer'[c] = answer[c] /\ (pc'[c] = "idle" <=> pc[c] = "idle")
    BY <2>1, ExchangeCancel
  <2>3. QED
    BY <2>1, <2>2, ExchangeStutter
<1>9. CASE Execute
  BY <1>9, ExchangeExecute DEF E!Next
<1>10. CASE WriteRequest \/ WriteFails \/ ReceivePayload \/ Receive \/ TakeReply \/ WriteReply \/ WriteReplyFails
            \/ ListenerEnds \/ Reset \/ Break \/ Hang \/ UNCHANGED vars
  <2>1. UNCHANGED <<executed, answer, pc>>
    BY <1>10 DEF WriteRequest, WriteFails, ReceivePayload, Receive, TakeReply, WriteReply, WriteReplyFails,
                 ListenerEnds, Reset, Break, Hang, vars, client, server
  <2>2. QED
    BY <2>1, ExchangeStutter
<1>11. QED
  BY <1>3, <1>4, <1>5, <1>6, <1>7, <1>8, <1>9, <1>10 DEF Next

\* The transport implements Exchange, for any number of callers: whatever overtakes,
\* breaks, hangs or is stopped, a request is executed at most once and its caller gets its
\* own answer, once, or an error.
THEOREM TransportImplements == Spec => Implements
<1>1. Init => E!Init
  <2>1. ASSUME Init  PROVE  E!Init
    BY <2>1 DEF Init, E!Init, Senders
  <2>2. QED
    BY <2>1
<1>2. TransportInv /\ [Next]_vars => [E!Next]_(E!vars)
  BY ExchangeStep
<1>3. QED
  BY <1>1, <1>2, TransportInvariant, PTL DEF Spec, Implements, E!Spec
=============================================================================
