----------------------------- MODULE Ipc_proofs -----------------------------
EXTENDS Ipc, SequenceTheorems, WellFoundedInduction, TLAPS

(* Induction with a set in the place of the predicate. *)
LEMMA SetInduction ==
  ASSUME NEW T, 0 \in T, \A n \in Nat : n \in T => n + 1 \in T
  PROVE  Nat \subseteq T
<1> DEFINE U == Nat \ T
<1> SUFFICES ASSUME U # {} PROVE FALSE
  OBVIOUS
<1>1. PICK x \in U : \A y \in U : ~(<<y, x>> \in OpToRel(<, Nat))
  BY NatLessThanWellFounded, WFMin
<1>2. x # 0 /\ x - 1 \in Nat /\ x - 1 < x
  OBVIOUS
<1>3. <<x - 1, x>> \in OpToRel(<, Nat)
  BY <1>2 DEF OpToRel
<1>4. x - 1 \in T
  BY <1>1, <1>2, <1>3
<1> QED
  BY <1>2, <1>4

(* RemoveAt shifts what is behind the index. *)
LEMMA RemoveAtProperties ==
  ASSUME NEW S, NEW s \in Seq(S), NEW i \in 1..Len(s)
  PROVE  /\ RemoveAt(s, i) \in Seq(S)
         /\ Len(RemoveAt(s, i)) = Len(s) - 1
         /\ \A j \in 1..Len(s) - 1 : RemoveAt(s, i)[j] = IF j < i THEN s[j] ELSE s[j + 1]
<1> DEFINE a == SubSeq(s, 1, i - 1)
           b == SubSeq(s, i + 1, Len(s))
<1>1. Len(s) \in Nat /\ i \in Nat /\ i - 1 \in Nat
  OBVIOUS
<1>2. /\ a \in Seq(S) /\ Len(a) = i - 1
      /\ \A j \in 1..i - 1 : a[j] = s[j]
  BY <1>1, SubSeqProperties
<1>3. /\ b \in Seq(S) /\ Len(b) = Len(s) - i
      /\ \A j \in 1..Len(s) - i : b[j] = s[i + j]
  BY <1>1, SubSeqProperties
<1>4. RemoveAt(s, i) = a \o b
  BY DEF RemoveAt
<1> HIDE DEF a, b
<1>5. /\ a \o b \in Seq(S) /\ Len(a \o b) = Len(a) + Len(b)
      /\ \A j \in 1..Len(a) + Len(b) : (a \o b)[j] = IF j <= Len(a) THEN a[j] ELSE b[j - Len(a)]
  BY <1>2, <1>3, ConcatProperties
<1>6. Len(a) + Len(b) = Len(s) - 1
  BY <1>1, <1>2, <1>3
<1>7. ASSUME NEW j \in 1..Len(s) - 1
      PROVE  (a \o b)[j] = IF j < i THEN s[j] ELSE s[j + 1]
  <2>1. CASE j < i
    BY <1>1, <1>2, <1>5, <1>6, <2>1
  <2>2. CASE ~(j < i)
    <3>1. (a \o b)[j] = b[j - (i - 1)]
      BY <1>1, <1>2, <1>5, <1>6, <2>2
    <3>2. j - (i - 1) \in 1..Len(s) - i /\ i + (j - (i - 1)) = j + 1
      BY <1>1, <2>2
    <3> QED
      BY <1>3, <2>2, <3>1, <3>2
  <2> QED
    BY <2>1, <2>2
<1> QED
  BY <1>4, <1>5, <1>6, <1>7

-----------------------------------------------------------------------------
(* The erasure of the subscribers that could not be reached *)

\* What one more index makes of what is left.
Erase(f, gone, n, i) ==
  IF i = 0 THEN subscribers
  ELSE IF n + 1 - i \in gone THEN RemoveAt(f[i - 1], n + 1 - i)
  ELSE f[i - 1]

LEMMA ErasedExists ==
  ASSUME NEW gone, NEW n \in Nat
  PROVE  \E f : f = [i \in 0..n |-> Erase(f, gone, n, i)]
<1> DEFINE Part(f, m) == f = [i \in 0..m |-> Erase(f, gone, n, i)]
           T == {m \in Nat : \E f : Part(f, m)}
<1>1. 0 \in T
  <2> DEFINE f == [i \in 0..0 |-> subscribers]
  <2>1. Part(f, 0)
    BY DEF Erase
  <2> QED
    BY <2>1
<1>2. ASSUME NEW m \in Nat, m \in T
      PROVE  m + 1 \in T
  <2>1. PICK f : Part(f, m)
    BY <1>2
  <2> DEFINE g == [i \in 0..m + 1 |-> IF i = m + 1 THEN Erase(f, gone, n, m + 1) ELSE f[i]]
  <2>2. g[m + 1] = Erase(f, gone, n, m + 1) /\ \A i \in 0..m : g[i] = f[i]
    OBVIOUS
  <2>3. g = [i \in 0..m + 1 |-> g[i]]
    OBVIOUS
  <2> HIDE DEF g
  <2>4. ASSUME NEW i \in 0..m + 1
        PROVE  g[i] = Erase(g, gone, n, i)
    <3>1. i # 0 => i - 1 \in 0..m
      OBVIOUS
    <3>2. i # 0 => g[i - 1] = f[i - 1]
      BY <2>2, <3>1
    <3>3. Erase(g, gone, n, i) = Erase(f, gone, n, i)
      BY <3>2 DEF Erase
    <3>4. i \in 0..m \/ i = m + 1
      OBVIOUS
    <3>5. i \in 0..m => f[i] = Erase(f, gone, n, i)
      BY <2>1
    <3> QED
      BY <2>2, <3>3, <3>4, <3>5
  <2>5. Part(g, m + 1)
    BY <2>3, <2>4
  <2> HIDE DEF Part
  <2> QED
    BY <2>5
<1>3. n \in T
  <2> HIDE DEF T
  <2> QED
    BY <1>1, <1>2, SetInduction
<1> QED
  BY <1>3

LEMMA WithoutAllIs ==
  ASSUME NEW gone, Len(subscribers) \in Nat
  PROVE  \E f : /\ WithoutAll(gone) = f[Len(subscribers)]
                /\ \A i \in 0..Len(subscribers) : f[i] = Erase(f, gone, Len(subscribers), i)
<1> DEFINE n == Len(subscribers)
           g == CHOOSE f : f = [i \in 0..n |-> Erase(f, gone, n, i)]
<1>1. g = [i \in 0..n |-> Erase(g, gone, n, i)]
  BY ErasedExists
<1>2. WithoutAll(gone) = g[n]
  BY DEF WithoutAll, Erase
<1> HIDE DEF g
<1>3. \A i \in 0..n : g[i] = Erase(g, gone, n, i)
  BY <1>1
<1> QED
  BY <1>2, <1>3

Distinct(s) == \A j, k \in 1..Len(s) : s[j] = s[k] => j = k

\* When the last i indices have been seen to, the others are where they were, and
\* of those exactly the reachable ones are left.
Stage(s, gone, i) ==
  /\ s \in Seq(Peers) /\ Distinct(s)
  /\ Len(subscribers) - i <= Len(s)
  /\ \A j \in 1..Len(subscribers) - i : s[j] = subscribers[j]
  /\ \A j \in 1..Len(s) : \E k \in 1..Len(subscribers) :
       s[j] = subscribers[k] /\ (k \in gone => k <= Len(subscribers) - i)
  /\ \A k \in 1..Len(subscribers) \ gone : \E j \in 1..Len(s) : s[j] = subscribers[k]

LEMMA StageRemoves ==
  ASSUME NEW gone, NEW i \in 1..Len(subscribers), NEW s,
         subscribers \in Seq(Peers), Distinct(subscribers),
         Stage(s, gone, i - 1), Len(subscribers) + 1 - i \in gone
  PROVE  Stage(RemoveAt(s, Len(subscribers) + 1 - i), gone, i)
<1> DEFINE n == Len(subscribers)
           x == n + 1 - i
           t == RemoveAt(s, x)
<1>1. n \in Nat /\ i \in Nat /\ x \in 1..n /\ n - (i - 1) = x /\ n - i = x - 1
  OBVIOUS
<1> HIDE DEF n, x
<1>2. /\ s \in Seq(Peers) /\ Distinct(s) /\ Len(s) \in Nat /\ x <= Len(s)
      /\ \A j \in 1..x : s[j] = subscribers[j]
      /\ \A j \in 1..Len(s) : \E k \in 1..n : s[j] = subscribers[k] /\ (k \in gone => k <= x)
      /\ \A k \in 1..n \ gone : \E j \in 1..Len(s) : s[j] = subscribers[k]
  BY <1>1 DEF Stage, n
<1>3. x \in 1..Len(s)
  BY <1>1, <1>2
<1>4. /\ t \in Seq(Peers) /\ Len(t) = Len(s) - 1
      /\ \A j \in 1..Len(s) - 1 : t[j] = IF j < x THEN s[j] ELSE s[j + 1]
  BY <1>2, <1>3, RemoveAtProperties
<1> HIDE DEF t
<1>5. Distinct(t)
  <2> SUFFICES ASSUME NEW j \in 1..Len(t), NEW k \in 1..Len(t), t[j] = t[k]
               PROVE  j = k
    BY DEF Distinct
  <2> DEFINE a == IF j < x THEN j ELSE j + 1
             b == IF k < x THEN k ELSE k + 1
  <2>1. a \in 1..Len(s) /\ b \in 1..Len(s) /\ (a = b => j = k)
    BY <1>1, <1>2, <1>4
  <2>2. t[j] = s[a] /\ t[k] = s[b]
    BY <1>4
  <2> HIDE DEF a, b
  <2>3. s[a] = s[b]
    BY <2>2
  <2>4. a = b
    BY <1>2, <2>1, <2>3 DEF Distinct
  <2> QED
    BY <2>1, <2>4
<1>6. x - 1 <= Len(t) /\ \A j \in 1..x - 1 : t[j] = subscribers[j]
  BY <1>1, <1>2, <1>3, <1>4
<1>7. ASSUME NEW j \in 1..Len(t)
      PROVE  \E k \in 1..n : t[j] = subscribers[k] /\ (k \in gone => k <= x - 1)
  <2> DEFINE a == IF j < x THEN j ELSE j + 1
  <2>1. a \in 1..Len(s) /\ a # x
    BY <1>1, <1>2, <1>4
  <2>2. t[j] = s[a]
    BY <1>4
  <2> HIDE DEF a
  <2>3. PICK k \in 1..n : s[a] = subscribers[k] /\ (k \in gone => k <= x)
    BY <1>2, <2>1
  <2>4. k # x
    BY <1>1, <1>2, <1>3, <2>1, <2>3 DEF Distinct
  <2>5. k \in gone => k <= x - 1
    BY <1>1, <2>3, <2>4
  <2> QED
    BY <2>2, <2>3, <2>5
<1>8. ASSUME NEW k \in 1..n \ gone
      PROVE  \E j \in 1..Len(t) : t[j] = subscribers[k]
  <2>1. PICK a \in 1..Len(s) : s[a] = subscribers[k]
    BY <1>2
  <2>2. a # x
    <3>1. SUFFICES ASSUME a = x PROVE FALSE
      OBVIOUS
    <3>2. subscribers[x] = subscribers[k]
      BY <1>1, <1>2, <2>1, <3>1
    <3>3. x = k
      BY <1>1, <3>2 DEF Distinct, n
    <3> QED
      BY <3>3 DEF x, n
  <2> DEFINE j == IF a < x THEN a ELSE a - 1
  <2>3. j \in 1..Len(t) /\ t[j] = s[a]
    BY <1>1, <1>3, <1>4, <2>2
  <2> QED
    BY <2>1, <2>3
<1>9. Stage(t, gone, i)
  BY <1>1, <1>4, <1>5, <1>6, <1>7, <1>8 DEF Stage, n
<1> QED
  BY <1>9 DEF t, x, n

LEMMA StageSkips ==
  ASSUME NEW gone, NEW i \in 1..Len(subscribers), NEW s,
         subscribers \in Seq(Peers),
         Stage(s, gone, i - 1), Len(subscribers) + 1 - i \notin gone
  PROVE  Stage(s, gone, i)
<1>1. Len(subscribers) \in Nat /\ Len(s) \in Nat
  BY DEF Stage
<1>2. ASSUME NEW j \in 1..Len(s)
      PROVE  \E k \in 1..Len(subscribers) :
               s[j] = subscribers[k] /\ (k \in gone => k <= Len(subscribers) - i)
  <2>1. PICK k \in 1..Len(subscribers) :
          s[j] = subscribers[k] /\ (k \in gone => k <= Len(subscribers) - (i - 1))
    BY DEF Stage
  <2>2. k # Len(subscribers) + 1 - i \/ k \notin gone
    OBVIOUS
  <2>3. k \in gone => k <= Len(subscribers) - i
    BY <1>1, <2>1, <2>2
  <2> QED
    BY <2>1, <2>3
<1>3. /\ s \in Seq(Peers) /\ Distinct(s)
      /\ Len(subscribers) - (i - 1) <= Len(s)
      /\ \A j \in 1..Len(subscribers) - (i - 1) : s[j] = subscribers[j]
      /\ \A k \in 1..Len(subscribers) \ gone : \E j \in 1..Len(s) : s[j] = subscribers[k]
  BY DEF Stage
<1>4. /\ Len(subscribers) - i <= Len(s)
      /\ \A j \in 1..Len(subscribers) - i : s[j] = subscribers[j]
  BY <1>1, <1>3
<1> QED
  BY <1>2, <1>3, <1>4 DEF Stage

\* Exactly those that could be reached stay, whatever the others' indices.
THEOREM ErasesExactly ==
  ASSUME NEW gone, subscribers \in Seq(Peers), Distinct(subscribers)
  PROVE  /\ WithoutAll(gone) \in Seq(Peers) /\ Distinct(WithoutAll(gone))
         /\ ToSet(WithoutAll(gone)) = {subscribers[k] : k \in 1..Len(subscribers) \ gone}
<1> DEFINE n == Len(subscribers)
<1>1. n \in Nat
  OBVIOUS
<1>2. PICK f : /\ WithoutAll(gone) = f[n]
               /\ \A i \in 0..n : f[i] = Erase(f, gone, n, i)
  BY <1>1, WithoutAllIs
<1> DEFINE T == {i \in Nat : i <= n => Stage(f[i], gone, i)}
<1>3. 0 \in T
  <2>1. f[0] = subscribers
    BY <1>1, <1>2 DEF Erase
  <2>2. Stage(subscribers, gone, 0)
    BY <1>1 DEF Stage
  <2> QED
    BY <2>1, <2>2
<1>4. ASSUME NEW i \in Nat, i \in T
      PROVE  i + 1 \in T
  <2> SUFFICES ASSUME i + 1 <= n
               PROVE  Stage(f[i + 1], gone, i + 1)
    OBVIOUS
  <2>1. i + 1 \in 1..n /\ i + 1 \in 0..n /\ (i + 1) - 1 = i /\ i + 1 # 0
    BY <1>1
  <2>2. Stage(f[i], gone, i)
    BY <1>1, <1>4
  <2>3. f[i + 1] = IF n + 1 - (i + 1) \in gone THEN RemoveAt(f[i], n + 1 - (i + 1)) ELSE f[i]
    BY <1>2, <2>1 DEF Erase
  <2>4. CASE n + 1 - (i + 1) \in gone
    BY <2>1, <2>2, <2>3, <2>4, StageRemoves
  <2>5. CASE n + 1 - (i + 1) \notin gone
    BY <2>1, <2>2, <2>3, <2>5, StageSkips
  <2> QED
    BY <2>4, <2>5
<1>5. n \in T
  <2> HIDE DEF T
  <2> QED
    BY <1>1, <1>3, <1>4, SetInduction
<1>6. Stage(WithoutAll(gone), gone, n)
  BY <1>1, <1>2, <1>5
<1> SUFFICES ASSUME NEW s, s = WithoutAll(gone)
             PROVE  /\ s \in Seq(Peers) /\ Distinct(s)
                    /\ ToSet(s) = {subscribers[k] : k \in 1..n \ gone}
  OBVIOUS
<1>7. /\ s \in Seq(Peers) /\ Distinct(s)
      /\ \A j \in 1..Len(s) : \E k \in 1..n : s[j] = subscribers[k] /\ k \notin gone
      /\ \A k \in 1..n \ gone : \E j \in 1..Len(s) : s[j] = subscribers[k]
  BY <1>1, <1>6 DEF Stage
<1>8. ToSet(s) = {subscribers[k] : k \in 1..n \ gone}
  <2>1. DOMAIN s = 1..Len(s)
    BY <1>7
  <2>2. ASSUME NEW q \in ToSet(s)
        PROVE  q \in {subscribers[k] : k \in 1..n \ gone}
    <3>1. PICK j \in 1..Len(s) : q = s[j]
      BY <2>1 DEF ToSet
    <3>2. PICK k \in 1..n : s[j] = subscribers[k] /\ k \notin gone
      BY <1>7
    <3> QED
      BY <3>1, <3>2
  <2>3. ASSUME NEW k \in 1..n \ gone
        PROVE  subscribers[k] \in ToSet(s)
    BY <1>7, <2>1 DEF ToSet
  <2> QED
    BY <2>2, <2>3
<1> QED
  BY <1>7, <1>8

-----------------------------------------------------------------------------
(* The inductive invariant *)

PeerStates == {"out", "connected", "asked", "answered", "streaming", "left"}
Msgs == (UNION {Messages[p] : p \in Peers}) \cup {None}

Serving == serving \notin {None, Ended}
InRound == handler \notin {None, Ended}

Types ==
  /\ peer \in [Peers -> [st : PeerStates, msg : Msgs]]
  /\ backlog \in Seq(Peers) /\ subscribers \in Seq(Peers)
  /\ Serving => /\ serving = [peer |-> serving.peer, step |-> serving.step, old |-> serving.old]
                /\ serving.peer \in Peers
  /\ handler \in Round \cup {None, Ended}
  /\ sink \in [on : BOOLEAN, queue : [1..2 -> Seq(Nat)], index : 1..2]
  /\ logged \in Nat
  /\ received \in [Peers -> Seq(Nat)]

\* A connection is in one place: with its peer, in the backlog, served, or among
\* the subscribers; and only a subscriber has been sent messages.
Waiting(p) == p \in ToSet(backlog) \/ (Serving /\ serving.peer = p)
Fresh(p)   == peer[p].st = "out" \/ Waiting(p)

Places ==
  /\ Distinct(backlog) /\ Distinct(subscribers)
  /\ Serving => serving.peer \notin ToSet(backlog)
  /\ \A p \in Peers : Waiting(p) => peer[p].st \in {"connected", "asked", "left"}
  /\ \A p \in Peers : Fresh(p) => p \notin ToSet(subscribers) /\ received[p] = << >>
  /\ \A p \in ToSet(subscribers) : peer[p].st \in {"streaming", "left"}

Increasing(s) == \A i, j \in 1..Len(s) : i < j => s[i] < s[j]
Below(s, t)   == \A i \in 1..Len(s), j \in 1..Len(t) : s[i] < t[j]
UpTo(s, n)    == \A i \in 1..Len(s) : s[i] <= n

\* Messages are numbered as they are logged, and a peer has been sent older ones
\* only than those that are collected now.
Orders ==
  /\ \A i \in 1..2 : Increasing(sink.queue[i]) /\ UpTo(sink.queue[i], logged)
  /\ \A p \in Peers : /\ Increasing(received[p]) /\ UpTo(received[p], logged)
                      /\ Below(received[p], sink.queue[sink.index])

\* In a round the handler is at a subscriber and a message there are; those it gave
\* up have left; and the messages in front are older than those collected and newer
\* than what the subscribers to come, and the one it is at, have been sent.
Sending == sink.queue[handler.front]

RoundPlace ==
  /\ handler.front = 3 - sink.index
  /\ 1 <= handler.at /\ handler.at <= handler.end /\ handler.end <= Len(subscribers)
  /\ handler.next \in 1..Len(Sending)

RoundGone ==
  \A k \in handler.gone : k \in 1..Len(subscribers) /\ peer[subscribers[k]].st = "left"

RoundOrder ==
  /\ Below(Sending, sink.queue[sink.index])
  /\ \A k \in 1..Len(subscribers) : k > handler.at => Below(received[subscribers[k]], Sending)
  /\ \A i \in 1..Len(received[subscribers[handler.at]]), j \in 1..Len(Sending) :
       j >= handler.next => received[subscribers[handler.at]][i] < Sending[j]

\* Between two rounds the queue in front is empty.
Rounds ==
  /\ handler = None => sink.queue[3 - sink.index] = << >>
  /\ InRound => RoundPlace /\ RoundGone /\ RoundOrder

\* A sink that is off for want of subscribers holds nothing.
SinkQuiet == prevEmpty => ~sink.on /\ sink.queue = << << >>, << >> >>

IpcInv == Types /\ Places /\ Orders /\ Rounds /\ SubscribersKept /\ SinkQuiet

-----------------------------------------------------------------------------
(* Facts about sequences *)

LEMMA ToSetOf ==
  ASSUME NEW S, NEW s \in Seq(S)
  PROVE  ToSet(s) = {s[i] : i \in 1..Len(s)} /\ ToSet(s) \subseteq S
<1>1. DOMAIN s = 1..Len(s) /\ \A i \in 1..Len(s) : s[i] \in S
  OBVIOUS
<1> QED
  BY <1>1 DEF ToSet

LEMMA AppendDistinct ==
  ASSUME NEW S, NEW s \in Seq(S), NEW x \in S, x \notin ToSet(s), Distinct(s)
  PROVE  Distinct(Append(s, x))
<1>1. \A i \in 1..Len(s) : s[i] # x
  BY ToSetOf
<1>2. /\ Len(s) \in Nat /\ Len(Append(s, x)) = Len(s) + 1
      /\ Append(s, x)[Len(s) + 1] = x
      /\ \A i \in 1..Len(s) : Append(s, x)[i] = s[i]
  BY AppendProperties
<1> QED
  BY <1>1, <1>2 DEF Distinct

LEMMA AppendToSet ==
  ASSUME NEW S, NEW s \in Seq(S), NEW x \in S
  PROVE  ToSet(Append(s, x)) = ToSet(s) \cup {x}
<1>1. /\ Append(s, x) \in Seq(S)
      /\ Len(s) \in Nat /\ Len(Append(s, x)) = Len(s) + 1
      /\ Append(s, x)[Len(s) + 1] = x
      /\ \A i \in 1..Len(s) : Append(s, x)[i] = s[i]
  BY AppendProperties
<1>2. ToSet(Append(s, x)) = {Append(s, x)[i] : i \in 1..Len(s) + 1}
  BY <1>1, ToSetOf
<1>3. ASSUME NEW q \in ToSet(Append(s, x))
      PROVE  q \in ToSet(s) \cup {x}
  <2>1. PICK i \in 1..Len(s) + 1 : q = Append(s, x)[i]
    BY <1>2
  <2>2. i = Len(s) + 1 \/ i \in 1..Len(s)
    BY <1>1
  <2> QED
    BY <1>1, <2>1, <2>2, ToSetOf
<1>4. ASSUME NEW q \in ToSet(s)
      PROVE  q \in ToSet(Append(s, x))
  <2>1. PICK i \in 1..Len(s) : q = s[i]
    BY ToSetOf
  <2>2. i \in 1..Len(s) + 1 /\ q = Append(s, x)[i]
    BY <1>1, <2>1
  <2> QED
    BY <1>2, <2>2
<1>5. x \in ToSet(Append(s, x))
  <2>1. Len(s) + 1 \in 1..Len(s) + 1
    BY <1>1
  <2> QED
    BY <1>1, <1>2, <2>1
<1> QED
  BY <1>3, <1>4, <1>5

\* The head leaves a backlog whose connections are distinct.
LEMMA TailDistinct ==
  ASSUME NEW S, NEW s \in Seq(S), s # << >>, Distinct(s)
  PROVE  /\ Head(s) \in ToSet(s) /\ Tail(s) \in Seq(S) /\ Distinct(Tail(s))
         /\ ToSet(Tail(s)) \subseteq ToSet(s) /\ Head(s) \notin ToSet(Tail(s))
<1>1. /\ Len(s) \in Nat \ {0} /\ Head(s) = s[1] /\ Tail(s) \in Seq(S)
      /\ Len(Tail(s)) = Len(s) - 1 /\ \A i \in 1..Len(Tail(s)) : Tail(s)[i] = s[i + 1]
  BY HeadTailProperties
<1>2. ToSet(s) = {s[i] : i \in 1..Len(s)} /\ ToSet(Tail(s)) = {Tail(s)[i] : i \in 1..Len(Tail(s))}
  BY <1>1, ToSetOf
<1>3. \A i \in 1..Len(Tail(s)) : i + 1 \in 1..Len(s) /\ i + 1 # 1
  BY <1>1
<1>4. Distinct(Tail(s))
  <2> SUFFICES ASSUME NEW j \in 1..Len(Tail(s)), NEW k \in 1..Len(Tail(s)), Tail(s)[j] = Tail(s)[k]
               PROVE  j = k
    BY DEF Distinct
  <2>1. j + 1 = k + 1
    BY <1>1, <1>3 DEF Distinct
  <2> QED
    BY <2>1
<1>5. ToSet(Tail(s)) \subseteq ToSet(s)
  BY <1>1, <1>2, <1>3
<1>6. 1 \in 1..Len(s)
  BY <1>1
<1>7. Head(s) \notin ToSet(Tail(s))
  BY <1>1, <1>2, <1>3, <1>6 DEF Distinct
<1> QED
  BY <1>1, <1>2, <1>4, <1>5, <1>6, <1>7

LEMMA EmptyToSet == ToSet(<< >>) = {} /\ Distinct(<< >>)
BY DEF ToSet, Distinct

\* The message that is logged goes behind those the queue has room for.
LEMMA LoggedQueue ==
  ASSUME NEW queue \in Seq(Nat), NEW n \in Nat, NEW from \in 1..Len(queue) + 1,
         Increasing(queue), UpTo(queue, n)
  PROVE  LET new == Append(SubSeq(queue, from, Len(queue)), n + 1) IN
         /\ new \in Seq(Nat) /\ Increasing(new) /\ UpTo(new, n + 1)
         /\ \A j \in 1..Len(new) : new[j] = n + 1 \/ \E k \in 1..Len(queue) : new[j] = queue[k]
<1> DEFINE room == SubSeq(queue, from, Len(queue))
           new == Append(room, n + 1)
<1>1. /\ Len(queue) \in Nat /\ from \in Nat
      /\ room \in Seq(Nat) /\ Len(room) = Len(queue) - from + 1
      /\ \A j \in 1..Len(room) : room[j] = queue[from + j - 1]
  <2>1. Len(queue) \in Nat /\ from \in Nat /\ from \in 1..Len(queue) + 1 /\ Len(queue) \in from - 1..Len(queue)
    OBVIOUS
  <2> QED
    BY <2>1, SubSeqProperties
<1> HIDE DEF room
<1>2. /\ new \in Seq(Nat) /\ Len(new) = Len(room) + 1 /\ new[Len(room) + 1] = n + 1
      /\ \A j \in 1..Len(room) : new[j] = room[j]
  BY <1>1, AppendProperties
<1> HIDE DEF new
<1>3. ASSUME NEW j \in 1..Len(room)
      PROVE  from + j - 1 \in 1..Len(queue) /\ new[j] = queue[from + j - 1]
  BY <1>1, <1>2
<1>4. ASSUME NEW j \in 1..Len(room)
      PROVE  new[j] \in Nat /\ new[j] <= n
  BY <1>3 DEF UpTo
<1>5. Len(room) \in Nat
  BY <1>1
<1>6. \A j \in 1..Len(new) : j = Len(room) + 1 \/ j \in 1..Len(room)
  BY <1>2, <1>5
<1>7. Increasing(new)
  <2> SUFFICES ASSUME NEW i \in 1..Len(new), NEW j \in 1..Len(new), i < j
               PROVE  new[i] < new[j]
    BY DEF Increasing
  <2>0. i \in 1..Len(room)
    BY <1>2, <1>5
  <2>1. new[i] \in Nat /\ new[i] <= n
    BY <1>4, <2>0
  <2>2. CASE j = Len(room) + 1
    BY <1>2, <2>1, <2>2
  <2>3. CASE j \in 1..Len(room)
    <3>1. from + i - 1 < from + j - 1
      BY <1>1, <2>3
    <3>2. /\ from + i - 1 \in 1..Len(queue) /\ new[i] = queue[from + i - 1]
          /\ from + j - 1 \in 1..Len(queue) /\ new[j] = queue[from + j - 1]
      BY <1>3, <2>0, <2>3
    <3> QED
      BY <3>1, <3>2 DEF Increasing
  <2> QED
    BY <1>6, <2>2, <2>3
<1>8. UpTo(new, n + 1)
  <2> SUFFICES ASSUME NEW j \in 1..Len(new)
               PROVE  new[j] <= n + 1
    BY DEF UpTo
  <2>1. CASE j = Len(room) + 1
    BY <1>2, <2>1
  <2>2. CASE j \in 1..Len(room)
    BY <1>4, <2>2
  <2> QED
    BY <1>6, <2>1, <2>2
<1>9. \A j \in 1..Len(new) : new[j] = n + 1 \/ \E k \in 1..Len(queue) : new[j] = queue[k]
  BY <1>2, <1>3, <1>6
<1> QED
  BY <1>2, <1>7, <1>8, <1>9 DEF new, room

-----------------------------------------------------------------------------
(* Steps of the peers and of the server *)

LEMMA EmptyQueues == << << >>, << >> >> \in [1..2 -> Seq(Nat)]
<1>1. << >> \in Seq(Nat)
  OBVIOUS
<1>2. << << >>, << >> >> \in Seq(Seq(Nat)) /\ Len(<< << >>, << >> >>) = 2
  BY <1>1
<1> QED
  BY <1>2, ElementOfSeq, LenProperties

LEMMA SameQueues ==
  ASSUME NEW f \in [1..2 -> Seq(Nat)], NEW g \in [1..2 -> Seq(Nat)], \A k \in 1..2 : f[k] = g[k]
  PROVE  f = g
OBVIOUS

LEMMA IpcInit == Init => IpcInv
<1> SUFFICES ASSUME Init PROVE IpcInv
  OBVIOUS
<1>1. Types
  <2>1. << << >>, << >> >> \in [1..2 -> Seq(Nat)]
    BY EmptyQueues
  <2>2. sink \in [on : BOOLEAN, queue : [1..2 -> Seq(Nat)], index : 1..2]
    BY <2>1 DEF Init
  <2>3. peer \in [Peers -> [st : PeerStates, msg : Msgs]]
    <3>1. None \in Msgs
      BY DEF Msgs
    <3>2. "out" \in PeerStates
      BY DEF PeerStates
    <3> QED
      BY <3>1, <3>2 DEF Init
  <2>4. backlog \in Seq(Peers) /\ subscribers \in Seq(Peers)
    BY DEF Init
  <2>5. received \in [Peers -> Seq(Nat)] /\ logged \in Nat
    BY DEF Init
  <2> QED
    BY <2>2, <2>3, <2>4, <2>5 DEF Init, Types, Serving
<1>2. Places
  BY EmptyToSet DEF Init, Places, Waiting, Fresh, Serving
<1>3. Orders
  BY DEF Init, Orders, Increasing, Below, UpTo
<1>4. Rounds
  BY DEF Init, Rounds, InRound
<1>5. SubscribersKept /\ SinkQuiet
  BY DEF Init, SubscribersKept, SinkQuiet
<1> QED
  BY <1>1, <1>2, <1>3, <1>4, <1>5 DEF IpcInv

\* Steps that leave the log to logcat_handler: peers may leave, and forget what
\* they were sent.
LEMMA LogcatKept ==
  ASSUME Types, Orders, Rounds,
         subscribers' = subscribers, handler' = handler, sink' = sink, logged' = logged,
         \A p \in Peers : received'[p] \in {received[p], << >>},
         \A p \in Peers : peer[p].st = "left" => peer'[p].st = "left"
  PROVE  Orders' /\ Rounds'
<1>1. Orders'
  <2>1. \A i \in 1..2 : Increasing(sink'.queue[i]) /\ UpTo(sink'.queue[i], logged')
    BY DEF Orders
  <2>2. ASSUME NEW p \in Peers
        PROVE  /\ Increasing(received'[p]) /\ UpTo(received'[p], logged')
               /\ Below(received'[p], sink'.queue[sink'.index])
    BY DEF Orders, Increasing, UpTo, Below
  <2> QED
    BY <2>1, <2>2 DEF Orders
<1>2. Rounds'
  <2>1. handler' = None => sink'.queue[3 - sink'.index] = << >>
    BY DEF Rounds
  <2> SUFFICES ASSUME InRound
               PROVE  RoundPlace' /\ RoundGone' /\ RoundOrder'
    BY <2>1 DEF Rounds, InRound
  <2>2. RoundPlace /\ RoundGone /\ RoundOrder
    BY DEF Rounds
  <2>3. /\ Sending' = Sending
        /\ \A k \in 1..Len(subscribers) : subscribers[k] \in Peers
        /\ handler.at \in 1..Len(subscribers)
    <3>1. handler \in Round
      BY DEF Types, InRound
    <3>2. handler.at \in Nat /\ handler.end \in Nat /\ Len(subscribers) \in Nat
      BY <3>1 DEF Round, Types
    <3> QED
      BY <2>2, <3>2 DEF Sending, RoundPlace, Types
  <2>4. RoundPlace'
    BY <2>2, <2>3 DEF RoundPlace
  <2>5. RoundGone'
    BY <2>2, <2>3 DEF RoundGone
  <2>6. RoundOrder'
    <3>1. ASSUME NEW k \in 1..Len(subscribers), k > handler.at
          PROVE  Below(received'[subscribers[k]], Sending)
      <4>1. Below(received[subscribers[k]], Sending)
        BY <2>2, <3>1 DEF RoundOrder
      <4>2. Below(<< >>, Sending)
        BY DEF Below
      <4>3. subscribers[k] \in Peers
        BY <2>3
      <4>4. received'[subscribers[k]] = received[subscribers[k]] \/ received'[subscribers[k]] = << >>
        BY <4>3
      <4> QED
        BY <4>1, <4>2, <4>4
    <3>2. ASSUME NEW i \in 1..Len(received'[subscribers[handler.at]]), NEW j \in 1..Len(Sending),
                 j >= handler.next
          PROVE  received'[subscribers[handler.at]][i] < Sending[j]
      <4>1. received'[subscribers[handler.at]] = received[subscribers[handler.at]]
        BY <2>3
      <4> QED
        BY <2>2, <3>2, <4>1 DEF RoundOrder
    <3> QED
      BY <2>2, <2>3, <3>1, <3>2 DEF RoundOrder
  <2> QED
    BY <2>4, <2>5, <2>6
<1> QED
  BY <1>1, <1>2

\* A step that moves connections, with the log left alone: nobody becomes fresh or
\* streaming, and nobody who has left comes back.
LEMMA ConnectionsMoved ==
  ASSUME IpcInv, running' => running,
         subscribers' = subscribers, handler' = handler, sink' = sink,
         prevEmpty' = prevEmpty, logged' = logged,
         received' \in [Peers -> Seq(Nat)],
         \A p \in Peers : received'[p] \in {received[p], << >>},
         peer' \in [Peers -> [st : PeerStates, msg : Msgs]],
         backlog' \in Seq(Peers), Distinct(backlog'),
         Serving' => /\ serving' = [peer |-> serving'.peer, step |-> serving'.step, old |-> serving'.old]
                     /\ serving'.peer \in Peers /\ serving'.peer \notin ToSet(backlog'),
         \A p \in Peers : Fresh(p)' => Fresh(p),
         \A p \in Peers : Waiting(p)' => peer'[p].st \in {"connected", "asked", "left"},
         \A p \in Peers : peer'[p].st = "streaming" => peer[p].st = "streaming",
         \A p \in Peers : peer[p].st = "left" => peer'[p].st = "left",
         \A p \in ToSet(subscribers) : peer'[p].st \in {"streaming", "left"}
  PROVE  IpcInv'
<1> USE DEF IpcInv
<1>1. Types'
  BY DEF Types, Serving
<1>2. Places'
  BY DEF Places, Serving
<1>3. Orders' /\ Rounds'
  BY LogcatKept
<1>4. SubscribersKept' /\ SinkQuiet'
  BY DEF SubscribersKept, SinkQuiet
<1> QED
  BY <1>1, <1>2, <1>3, <1>4

LEMMA ConnectStep ==
  ASSUME IpcInv, NEW p \in Peers, Connect(p)
  PROVE  IpcInv'
<1>1. /\ peer[p].st = "out" /\ peer' = [peer EXCEPT ![p].st = "connected"]
      /\ backlog' = Append(backlog, p)
      /\ running' = running /\ serving' = serving /\ subscribers' = subscribers /\ handler' = handler
      /\ sink' = sink /\ prevEmpty' = prevEmpty /\ logged' = logged /\ received' = received
  BY DEF Connect, logcat
<1>2. /\ peer' \in [Peers -> [st : PeerStates, msg : Msgs]]
      /\ peer'[p].st = "connected" /\ \A q \in Peers \ {p} : peer'[q] = peer[q]
  BY <1>1 DEF IpcInv, Types, PeerStates
<1>3. Types /\ Places
  BY DEF IpcInv
<1>4. p \notin ToSet(backlog) /\ ~(Serving /\ serving.peer = p) /\ p \notin ToSet(subscribers)
  <2>1. Fresh(p)
    BY <1>1 DEF Fresh
  <2>2. ~Waiting(p)
    BY <1>1, <1>3 DEF Places
  <2> QED
    BY <1>3, <2>1, <2>2 DEF Places, Waiting
<1>5. backlog' \in Seq(Peers) /\ ToSet(backlog') = ToSet(backlog) \cup {p} /\ Distinct(backlog')
  BY <1>1, <1>3, <1>4, AppendToSet, AppendDistinct DEF Types, Places
<1>6. /\ Serving' = Serving /\ (Serving => serving.peer # p)
      /\ \A q \in Peers : Waiting(q)' <=> Waiting(q) \/ q = p
  BY <1>1, <1>4, <1>5 DEF Serving, Waiting
<1>7. \A q \in Peers : Fresh(q)' => Fresh(q)
  BY <1>1, <1>2, <1>6 DEF Fresh
<1>8. \A q \in Peers : Waiting(q)' => peer'[q].st \in {"connected", "asked", "left"}
  BY <1>2, <1>3, <1>6 DEF Places
<1>9. \A q \in ToSet(subscribers) : peer'[q].st \in {"streaming", "left"}
  BY <1>2, <1>3, <1>4, ToSetOf DEF Types, Places
<1>10. Serving' => /\ serving' = [peer |-> serving'.peer, step |-> serving'.step, old |-> serving'.old]
                   /\ serving'.peer \in Peers /\ serving'.peer \notin ToSet(backlog')
  BY <1>1, <1>3, <1>5, <1>6 DEF Types, Places
<1>11. received' \in [Peers -> Seq(Nat)]
  BY <1>1, <1>3 DEF Types
<1> QED
  BY <1>1, <1>2, <1>5, <1>7, <1>8, <1>9, <1>10, <1>11, ConnectionsMoved

\* A step in which only connections' states change: nobody is accepted or served.
LEMMA StatesChanged ==
  ASSUME IpcInv, running' = running, backlog' = backlog, serving' = serving,
         subscribers' = subscribers, handler' = handler, sink' = sink,
         prevEmpty' = prevEmpty, logged' = logged,
         received' \in [Peers -> Seq(Nat)],
         \A p \in Peers : received'[p] \in {received[p], << >>},
         peer' \in [Peers -> [st : PeerStates, msg : Msgs]],
         \A p \in Peers : \/ peer'[p].st = peer[p].st
                          \/ peer'[p].st = "left" /\ peer[p].st # "out"
                          \/ peer[p].st = "connected" /\ peer'[p].st = "asked"
  PROVE  IpcInv'
<1>1. Types /\ Places
  BY DEF IpcInv
<1>2. Serving' = Serving /\ \A p \in Peers : Waiting(p)' = Waiting(p)
  BY DEF Serving, Waiting
<1>3. \A p \in Peers : Fresh(p)' => Fresh(p)
  BY <1>2 DEF Fresh
<1>4. \A p \in Peers : Waiting(p)' => peer'[p].st \in {"connected", "asked", "left"}
  BY <1>1, <1>2 DEF Places
<1>5. \A p \in ToSet(subscribers) : peer'[p].st \in {"streaming", "left"}
  <2>1. ToSet(subscribers) \subseteq Peers
    BY <1>1, ToSetOf DEF Types
  <2> QED
    BY <1>1, <2>1 DEF Places
<1>6. Serving' => /\ serving' = [peer |-> serving'.peer, step |-> serving'.step, old |-> serving'.old]
                  /\ serving'.peer \in Peers /\ serving'.peer \notin ToSet(backlog')
  BY <1>1, <1>2 DEF Types, Places
<1>7. backlog' \in Seq(Peers) /\ Distinct(backlog')
  BY <1>1 DEF Types, Places
<1> QED
  BY <1>3, <1>4, <1>5, <1>6, <1>7, ConnectionsMoved

LEMMA AskStep ==
  ASSUME IpcInv, NEW p \in Peers, NEW msg \in Messages[p], Ask(p, msg)
  PROVE  IpcInv'
<1>1. /\ peer[p].st = "connected" /\ peer' = [peer EXCEPT ![p] = [st |-> "asked", msg |-> msg]]
      /\ running' = running /\ backlog' = backlog /\ serving' = serving
      /\ subscribers' = subscribers /\ handler' = handler /\ sink' = sink
      /\ prevEmpty' = prevEmpty /\ logged' = logged /\ received' = received
  BY DEF Ask, server, logcat
<1>2. msg \in Msgs
  BY DEF Msgs
<1>3. peer' \in [Peers -> [st : PeerStates, msg : Msgs]] /\ received' \in [Peers -> Seq(Nat)]
  BY <1>1, <1>2 DEF IpcInv, Types, PeerStates
<1>4. peer'[p].st = "asked" /\ \A q \in Peers \ {p} : peer'[q] = peer[q]
  BY <1>1 DEF IpcInv, Types
<1> QED
  BY <1>1, <1>3, <1>4, StatesChanged

LEMMA LeaveStep ==
  ASSUME IpcInv, NEW p \in Peers, Leave(p)
  PROVE  IpcInv'
<1>1. /\ peer[p].st # "out" /\ peer' = [peer EXCEPT ![p].st = "left"]
      /\ running' = running /\ backlog' = backlog /\ serving' = serving
      /\ subscribers' = subscribers /\ handler' = handler /\ sink' = sink
      /\ prevEmpty' = prevEmpty /\ logged' = logged
      /\ received' = [received EXCEPT ![p] = << >>]
  BY DEF Leave, server, logcat
<1>2. /\ peer' \in [Peers -> [st : PeerStates, msg : Msgs]]
      /\ peer'[p].st = "left" /\ \A q \in Peers \ {p} : peer'[q] = peer[q]
  BY <1>1 DEF IpcInv, Types, PeerStates
<1>3. /\ received' \in [Peers -> Seq(Nat)]
      /\ \A q \in Peers : received'[q] \in {received[q], << >>}
  BY <1>1 DEF IpcInv, Types
<1> QED
  BY <1>1, <1>2, <1>3, StatesChanged

LEMMA StopStep ==
  ASSUME IpcInv, Stop
  PROVE  IpcInv'
<1>1. /\ running' = FALSE /\ backlog' = << >> /\ serving' = serving
      /\ peer' = [p \in Peers |-> IF p \in ToSet(backlog) THEN [peer[p] EXCEPT !.st = "left"] ELSE peer[p]]
      /\ subscribers' = subscribers /\ handler' = handler /\ sink' = sink
      /\ prevEmpty' = prevEmpty /\ logged' = logged /\ received' = received
  BY DEF Stop, logcat
<1>2. Types /\ Places
  BY DEF IpcInv
<1>3. /\ peer' \in [Peers -> [st : PeerStates, msg : Msgs]]
      /\ \A p \in Peers : peer'[p].st = (IF p \in ToSet(backlog) THEN "left" ELSE peer[p].st)
  BY <1>1, <1>2 DEF Types, PeerStates
<1>4. backlog' \in Seq(Peers) /\ ToSet(backlog') = {} /\ Distinct(backlog')
  BY <1>1, EmptyToSet
<1>5. Serving' = Serving /\ \A p \in Peers : Waiting(p)' => Waiting(p) /\ p \notin ToSet(backlog)
  BY <1>1, <1>2, <1>4 DEF Serving, Waiting, Places
<1>6. \A p \in Peers : Fresh(p)' => Fresh(p)
  BY <1>3, <1>5 DEF Fresh
<1>7. \A p \in Peers : Waiting(p)' => peer'[p].st \in {"connected", "asked", "left"}
  BY <1>2, <1>3, <1>5 DEF Places
<1>8. \A p \in ToSet(subscribers) : peer'[p].st \in {"streaming", "left"}
  <2>1. ToSet(subscribers) \subseteq Peers
    BY <1>2, ToSetOf DEF Types
  <2> QED
    BY <1>2, <1>3, <2>1 DEF Places
<1>9. Serving' => /\ serving' = [peer |-> serving'.peer, step |-> serving'.step, old |-> serving'.old]
                  /\ serving'.peer \in Peers /\ serving'.peer \notin ToSet(backlog')
  BY <1>1, <1>2, <1>4, <1>5 DEF Types
<1>10. received' \in [Peers -> Seq(Nat)]
  BY <1>1, <1>2 DEF Types
<1> QED
  BY <1>1, <1>3, <1>4, <1>6, <1>7, <1>8, <1>9, <1>10, ConnectionsMoved

LEMMA AcceptStep ==
  ASSUME IpcInv, Accept
  PROVE  IpcInv'
<1>1. /\ running' = running /\ peer' = peer /\ serving = None
      /\ subscribers' = subscribers /\ handler' = handler /\ sink' = sink
      /\ prevEmpty' = prevEmpty /\ logged' = logged /\ received' = received
  BY DEF Accept, logcat
<1>2. Types /\ Places
  BY DEF IpcInv
<1>3. CASE serving' = Ended /\ backlog' = backlog
  <2>1. ~Serving /\ ~Serving' /\ \A p \in Peers : (Waiting(p)' <=> Waiting(p)) /\ (Fresh(p)' <=> Fresh(p))
    BY <1>1, <1>3 DEF Serving, Waiting, Fresh
  <2>2. \A p \in Peers : Waiting(p)' => peer'[p].st \in {"connected", "asked", "left"}
    BY <1>1, <1>2, <2>1 DEF Places
  <2>3. /\ backlog' \in Seq(Peers) /\ Distinct(backlog')
        /\ peer' \in [Peers -> [st : PeerStates, msg : Msgs]] /\ received' \in [Peers -> Seq(Nat)]
        /\ \A p \in ToSet(subscribers) : peer'[p].st \in {"streaming", "left"}
    BY <1>1, <1>2, <1>3 DEF Types, Places
  <2> QED
    BY <1>1, <2>1, <2>2, <2>3, ConnectionsMoved
<1>4. CASE /\ backlog # << >> /\ backlog' = Tail(backlog)
           /\ serving' = [peer |-> Head(backlog), step |-> "receive", old |-> None]
  <2>1. /\ Head(backlog) \in ToSet(backlog) /\ backlog' \in Seq(Peers) /\ Distinct(backlog')
        /\ ToSet(backlog') \subseteq ToSet(backlog) /\ Head(backlog) \notin ToSet(backlog')
        /\ ToSet(backlog) \subseteq Peers
    BY <1>2, <1>4, TailDistinct, ToSetOf DEF Types, Places
  <2>2. \A p \in Peers : (Waiting(p)' => Waiting(p)) /\ (Fresh(p)' => Fresh(p))
    BY <1>1, <1>4, <2>1 DEF Waiting, Fresh
  <2>3. \A p \in Peers : Waiting(p)' => peer'[p].st \in {"connected", "asked", "left"}
    BY <1>1, <1>2, <2>2 DEF Places
  <2>4. /\ peer' \in [Peers -> [st : PeerStates, msg : Msgs]] /\ received' \in [Peers -> Seq(Nat)]
        /\ \A p \in ToSet(subscribers) : peer'[p].st \in {"streaming", "left"}
    BY <1>1, <1>2 DEF Types, Places
  <2>5. /\ serving' = [peer |-> serving'.peer, step |-> serving'.step, old |-> serving'.old]
        /\ serving'.peer \in Peers /\ serving'.peer \notin ToSet(backlog')
    BY <1>4, <2>1
  <2> QED
    BY <1>1, <2>1, <2>2, <2>3, <2>4, <2>5, ConnectionsMoved
<1> QED
  BY <1>3, <1>4 DEF Accept

\* The server goes on with the peer it serves.
LEMMA ServingOn ==
  ASSUME IpcInv, Serving, running' = running, backlog' = backlog, peer' = peer,
         subscribers' = subscribers, handler' = handler, sink' = sink,
         prevEmpty' = prevEmpty, logged' = logged, received' = received,
         NEW step, NEW old,
         serving' = [peer |-> serving.peer, step |-> step, old |-> old]
  PROVE  IpcInv'
<1>1. Types /\ Places
  BY DEF IpcInv
<1>2. \A p \in Peers : (Waiting(p)' => Waiting(p)) /\ (Fresh(p)' => Fresh(p))
  BY DEF Waiting, Fresh
<1>3. \A p \in Peers : Waiting(p)' => peer'[p].st \in {"connected", "asked", "left"}
  BY <1>1, <1>2 DEF Places
<1>4. /\ peer' \in [Peers -> [st : PeerStates, msg : Msgs]] /\ received' \in [Peers -> Seq(Nat)]
      /\ backlog' \in Seq(Peers) /\ Distinct(backlog')
      /\ \A p \in ToSet(subscribers) : peer'[p].st \in {"streaming", "left"}
  BY <1>1 DEF Types, Places
<1>5. /\ serving' = [peer |-> serving'.peer, step |-> serving'.step, old |-> serving'.old]
      /\ serving'.peer \in Peers /\ serving'.peer \notin ToSet(backlog')
  BY <1>1 DEF Types, Places
<1> QED
  BY <1>2, <1>3, <1>4, <1>5, ConnectionsMoved

LEMMA ServingExcept ==
  ASSUME NEW p, NEW s, NEW o, NEW step, NEW old, NEW r,
         r = [peer |-> p, step |-> s, old |-> o]
  PROVE  /\ [r EXCEPT !.step = step] = [peer |-> p, step |-> step, old |-> o]
         /\ [r EXCEPT !.step = step, !.old = old] = [peer |-> p, step |-> step, old |-> old]
<1>1. [r EXCEPT !.step = step] = [peer |-> p, step |-> step, old |-> o]
  OBVIOUS
<1>2. [r EXCEPT !.step = step, !.old = old] = [[r EXCEPT !.step = step] EXCEPT !.old = old]
  OBVIOUS
<1>3. [[peer |-> p, step |-> step, old |-> o] EXCEPT !.old = old] = [peer |-> p, step |-> step, old |-> old]
  OBVIOUS
<1> QED
  BY <1>1, <1>2, <1>3

LEMMA OperateStep ==
  ASSUME IpcInv, Operate
  PROVE  IpcInv'
<1>1. /\ Serving /\ running' = running /\ backlog' = backlog /\ peer' = peer
      /\ subscribers' = subscribers /\ handler' = handler /\ sink' = sink
      /\ prevEmpty' = prevEmpty /\ logged' = logged /\ received' = received
  BY DEF Operate, At, Serving, logcat
<1>2. Types
  BY DEF IpcInv
<1>3. \/ serving' = [serving EXCEPT !.step = "resize", !.old = conf]
      \/ serving' = [serving EXCEPT !.step = "reply"]
  BY DEF Operate, Answer
<1>4. \E step, old : serving' = [peer |-> serving.peer, step |-> step, old |-> old]
  BY <1>1, <1>2, <1>3, ServingExcept DEF Types
<1> QED
  BY <1>1, <1>4, ServingOn

LEMMA SetMaxPagesStep ==
  ASSUME IpcInv, SetMaxPages
  PROVE  IpcInv'
<1>1. /\ Serving /\ running' = running /\ backlog' = backlog /\ peer' = peer
      /\ subscribers' = subscribers /\ handler' = handler /\ sink' = sink
      /\ prevEmpty' = prevEmpty /\ logged' = logged /\ received' = received
      /\ serving' = [serving EXCEPT !.step = "reply"]
  BY DEF SetMaxPages, At, Serving, logcat
<1>2. Types
  BY DEF IpcInv
<1>3. \E step, old : serving' = [peer |-> serving.peer, step |-> step, old |-> old]
  BY <1>1, <1>2, ServingExcept DEF Types
<1> QED
  BY <1>1, <1>3, ServingOn

LEMMA NextPeerIs == \A failed : NextPeer(failed) \in {None, Ended}
BY DEF NextPeer

\* The server is done with a peer that does not subscribe.
LEMMA ServedStep ==
  ASSUME IpcInv, Serving, serving' \in {None, Ended}, running' = running, backlog' = backlog,
         subscribers' = subscribers, handler' = handler, sink' = sink,
         prevEmpty' = prevEmpty, logged' = logged, received' = received,
         peer' = peer \/ peer' = [peer EXCEPT ![serving.peer] = Settled(serving.peer, "answered")]
  PROVE  IpcInv'
<1> DEFINE p == serving.peer
<1>1. Types /\ Places
  BY DEF IpcInv
<1>2. p \in Peers /\ peer[p].st \in {"connected", "asked", "left"} /\ p \notin ToSet(subscribers) /\ p \notin ToSet(backlog)
  <2>1. p \in Peers /\ Waiting(p) /\ Fresh(p)
    BY <1>1 DEF Types, Waiting, Fresh
  <2> QED
    BY <1>1, <2>1 DEF Places
<1>3. /\ peer' \in [Peers -> [st : PeerStates, msg : Msgs]]
      /\ peer'[p].st \in {"answered", peer[p].st} /\ (peer[p].st = "left" => peer'[p].st = "left")
      /\ \A q \in Peers \ {p} : peer'[q] = peer[q]
  <2>1. Settled(p, "answered") \in [st : PeerStates, msg : Msgs]
    BY <1>2 DEF Settled, PeerStates, Msgs
  <2>2. Settled(p, "answered").st = IF peer[p].st = "left" THEN "left" ELSE "answered"
    BY DEF Settled
  <2> HIDE DEF p
  <2>3. CASE peer' = peer
    BY <1>1, <1>2, <2>3 DEF Types
  <2>4. CASE peer' = [peer EXCEPT ![p] = Settled(p, "answered")]
    BY <1>1, <1>2, <2>1, <2>2, <2>4 DEF Types
  <2> QED
    BY <2>3, <2>4 DEF p
<1> HIDE DEF p
<1>4. ~Serving' /\ \A q \in Peers : Waiting(q)' => q \in ToSet(backlog) /\ q # p
  BY <1>2 DEF Serving, Waiting
<1>5. \A q \in Peers : Fresh(q)' => Fresh(q)
  BY <1>2, <1>3, <1>4 DEF Fresh, Waiting
<1>6. \A q \in Peers : Waiting(q)' => peer'[q].st \in {"connected", "asked", "left"}
  BY <1>1, <1>3, <1>4 DEF Places, Waiting
<1>7. \A q \in ToSet(subscribers) : peer'[q].st \in {"streaming", "left"}
  <2>1. ToSet(subscribers) \subseteq Peers
    BY <1>1, ToSetOf DEF Types
  <2> QED
    BY <1>1, <1>2, <1>3, <2>1 DEF Places
<1>8. /\ backlog' \in Seq(Peers) /\ Distinct(backlog') /\ received' \in [Peers -> Seq(Nat)]
  BY <1>1 DEF Types, Places
<1>9. \A q \in Peers : peer'[q].st = "streaming" => peer[q].st = "streaming"
  BY <1>2, <1>3
<1>10. \A q \in Peers : peer[q].st = "left" => peer'[q].st = "left"
  BY <1>2, <1>3
<1> QED
  BY <1>3, <1>4, <1>5, <1>6, <1>7, <1>8, <1>9, <1>10, ConnectionsMoved

LEMMA ReplyStep ==
  ASSUME IpcInv, Reply
  PROVE  IpcInv'
<1>1. /\ Serving /\ running' = running /\ backlog' = backlog
      /\ subscribers' = subscribers /\ handler' = handler /\ sink' = sink
      /\ prevEmpty' = prevEmpty /\ logged' = logged /\ received' = received
      /\ peer' = [peer EXCEPT ![serving.peer] = Settled(serving.peer, "answered")]
      /\ serving' = NextPeer(FALSE)
  BY DEF Reply, At, Serving, logcat
<1> QED
  BY <1>1, NextPeerIs, ServedStep

\* A round that is under way, as its handler's type has it.
LEMMA RoundTypes ==
  ASSUME Types, Rounds, InRound
  PROVE  /\ handler \in Round /\ RoundPlace /\ RoundGone /\ RoundOrder
         /\ handler.front \in 1..2 /\ sink.index \in 1..2 /\ handler.front # sink.index
         /\ handler.at \in 1..Len(subscribers) /\ handler.end \in 1..Len(subscribers)
         /\ handler.next \in 1..Len(Sending) /\ Sending \in Seq(Nat)
         /\ Sending[handler.next] \in Nat /\ sink.queue[sink.index] \in Seq(Nat)
         /\ \A k \in 1..Len(subscribers) : subscribers[k] \in Peers /\ received[subscribers[k]] \in Seq(Nat)
<1>1. handler \in Round /\ RoundPlace /\ RoundGone /\ RoundOrder
  BY DEF Types, Rounds, InRound
<1>2. /\ handler.front \in 1..2 /\ handler.at \in Nat /\ handler.end \in Nat
      /\ Len(subscribers) \in Nat /\ sink.index \in 1..2 /\ sink.queue \in [1..2 -> Seq(Nat)]
  BY <1>1 DEF Types, Round
<1>3. handler.front # sink.index
  BY <1>1, <1>2 DEF RoundPlace
<1>4. handler.at \in 1..Len(subscribers) /\ handler.end \in 1..Len(subscribers)
  BY <1>1, <1>2 DEF RoundPlace
<1>5. handler.next \in 1..Len(Sending) /\ Sending \in Seq(Nat) /\ sink.queue[sink.index] \in Seq(Nat)
  BY <1>1, <1>2 DEF RoundPlace, Sending
<1>6. \A k \in 1..Len(subscribers) : subscribers[k] \in Peers /\ received[subscribers[k]] \in Seq(Nat)
  BY DEF Types
<1>7. Sending[handler.next] \in Nat
  BY <1>5, ElementOfSeq
<1> QED
  BY <1>1, <1>2, <1>3, <1>4, <1>5, <1>6, <1>7

\* A subscriber that comes during a round is behind those the round is for, and has
\* been sent nothing.
LEMMA SubscribeStep ==
  ASSUME IpcInv, Serving, Subscribe(serving.peer),
         running' = running, backlog' = backlog, handler' = handler, sink' = sink,
         prevEmpty' = prevEmpty, logged' = logged, received' = received
  PROVE  IpcInv'
<1> DEFINE p == serving.peer
           n == Len(subscribers)
<1>1. Types /\ Places /\ Orders /\ Rounds /\ SubscribersKept /\ SinkQuiet
  BY DEF IpcInv
<1>2. /\ p \in Peers /\ p \notin ToSet(subscribers) /\ p \notin ToSet(backlog) /\ received[p] = << >>
  <2>1. p \in Peers /\ Waiting(p) /\ Fresh(p)
    BY <1>1 DEF Types, Waiting, Fresh
  <2> QED
    BY <1>1, <2>1 DEF Places
<1>3. /\ serving' \in {None, Ended} /\ subscribers' = Append(subscribers, p)
      /\ peer' = [peer EXCEPT ![p] = Settled(p, "streaming")]
  BY NextPeerIs DEF Subscribe
<1>4. /\ peer' \in [Peers -> [st : PeerStates, msg : Msgs]]
      /\ peer'[p].st \in {"streaming", "left"} /\ (peer[p].st = "left" => peer'[p].st = "left")
      /\ \A q \in Peers \ {p} : peer'[q] = peer[q]
  <2>1. Settled(p, "streaming") \in [st : PeerStates, msg : Msgs]
    BY <1>2 DEF Settled, PeerStates, Msgs
  <2>2. Settled(p, "streaming").st = IF peer[p].st = "left" THEN "left" ELSE "streaming"
    BY DEF Settled
  <2> HIDE DEF p
  <2> QED
    BY <1>1, <1>2, <1>3, <2>1, <2>2 DEF Types
<1> HIDE DEF p
<1>5. /\ subscribers' \in Seq(Peers) /\ n \in Nat /\ Len(subscribers') = n + 1 /\ subscribers'[n + 1] = p
      /\ \A k \in 1..n : subscribers'[k] = subscribers[k]
  BY <1>1, <1>2, <1>3, AppendProperties DEF Types
<1>6. ToSet(subscribers') = ToSet(subscribers) \cup {p} /\ Distinct(subscribers') /\ ToSet(subscribers) \subseteq Peers
  BY <1>1, <1>2, <1>3, AppendToSet, AppendDistinct, ToSetOf DEF Types, Places
<1>7. Types'
  BY <1>1, <1>3, <1>4, <1>5 DEF Types, Serving
<1>8. Places'
  <2>1. ~Serving' /\ \A q \in Peers : Waiting(q)' => q # p /\ q \in ToSet(backlog)
    BY <1>2, <1>3 DEF Serving, Waiting
  <2>2. \A q \in Peers : Fresh(q)' => q # p /\ Fresh(q)
    BY <1>4, <2>1 DEF Fresh, Waiting
  <2>3. \A q \in Peers : Waiting(q)' => peer'[q].st \in {"connected", "asked", "left"}
    BY <1>1, <1>4, <2>1 DEF Places, Waiting
  <2>4. \A q \in Peers : Fresh(q)' => q \notin ToSet(subscribers') /\ received'[q] = << >>
    BY <1>1, <1>6, <2>2 DEF Places
  <2>5. \A q \in ToSet(subscribers') : peer'[q].st \in {"streaming", "left"}
    BY <1>1, <1>4, <1>6 DEF Places
  <2> QED
    BY <1>1, <1>6, <2>1, <2>3, <2>4, <2>5 DEF Places
<1>9. Orders'
  BY <1>1 DEF Orders
<1>10. Rounds'
  <2>1. handler' = None => sink'.queue[3 - sink'.index] = << >>
    BY <1>1 DEF Rounds
  <2> SUFFICES ASSUME InRound
               PROVE  RoundPlace' /\ RoundGone' /\ RoundOrder'
    BY <2>1 DEF Rounds, InRound
  <2>2. /\ RoundPlace /\ RoundGone /\ RoundOrder /\ handler.at \in 1..n /\ handler.end \in 1..n
        /\ \A k \in 1..n : subscribers[k] \in Peers
    BY <1>1, RoundTypes
  <2>3. Sending' = Sending
    BY DEF Sending
  <2>4. RoundPlace'
    BY <1>5, <2>2, <2>3 DEF RoundPlace
  <2>5. RoundGone'
    BY <1>1, <1>2, <1>4, <1>5, <2>2 DEF RoundGone
  <2>6. RoundOrder'
    <3>1. ASSUME NEW k \in 1..n + 1, k > handler.at
          PROVE  Below(received[subscribers'[k]], Sending)
      <4>1. CASE k \in 1..n
        BY <1>5, <2>2, <3>1, <4>1 DEF RoundOrder
      <4>2. CASE k = n + 1
        BY <1>2, <1>5, <4>2 DEF Below
      <4> QED
        BY <1>5, <4>1, <4>2
    <3>2. subscribers'[handler.at] = subscribers[handler.at]
      BY <1>5, <2>2
    <3> QED
      BY <1>5, <2>2, <2>3, <3>1, <3>2 DEF RoundOrder
  <2> QED
    BY <2>4, <2>5, <2>6
<1>11. SubscribersKept' /\ SinkQuiet'
  BY <1>1, <1>4, <1>6 DEF SubscribersKept, SinkQuiet
<1> QED
  BY <1>7, <1>8, <1>9, <1>10, <1>11 DEF IpcInv

LEMMA ReceiveStep ==
  ASSUME IpcInv, Receive
  PROVE  IpcInv'
<1>1. /\ Serving /\ running' = running /\ backlog' = backlog /\ handler' = handler
      /\ sink' = sink /\ prevEmpty' = prevEmpty /\ logged' = logged /\ received' = received
  BY DEF Receive, At, Serving
<1>2. Types
  BY DEF IpcInv
<1>3. CASE serving' = NextPeer(TRUE) /\ peer' = peer /\ subscribers' = subscribers
  BY <1>1, <1>3, NextPeerIs, ServedStep
<1>4. CASE Subscribe(serving.peer)
  BY <1>1, <1>4, SubscribeStep
<1>5. ASSUME NEW step, serving' = [serving EXCEPT !.step = step], peer' = peer, subscribers' = subscribers
      PROVE  IpcInv'
  <2>1. serving' = [peer |-> serving.peer, step |-> step, old |-> serving.old]
    BY <1>1, <1>2, <1>5, ServingExcept DEF Types
  <2> QED
    BY <1>1, <1>5, <2>1, ServingOn
<1> QED
  BY <1>3, <1>4, <1>5 DEF Receive

-----------------------------------------------------------------------------
(* Steps of the log *)

LEMMA SinkIs ==
  ASSUME Types
  PROVE  /\ sink.index \in 1..2 /\ 3 - sink.index \in 1..2 /\ 3 - sink.index # sink.index
         /\ 3 - (3 - sink.index) = sink.index
         /\ sink.queue \in [1..2 -> Seq(Nat)] /\ sink.queue[1] \in Seq(Nat) /\ sink.queue[2] \in Seq(Nat)
         /\ sink.on \in BOOLEAN
<1>1. sink.index \in 1..2 /\ sink.queue \in [1..2 -> Seq(Nat)] /\ sink.on \in BOOLEAN
  BY DEF Types
<1> QED
  BY <1>1

LEMMA LogStep ==
  ASSUME IpcInv, Log
  PROVE  IpcInv'
<1> DEFINE i == sink.index
           queue == sink.queue[i]
           from == Larger(Len(queue) + 2, MaxQueue + 1) - MaxQueue
           new == Append(SubSeq(queue, from, Len(queue)), logged + 1)
<1>1. Types /\ Places /\ Orders /\ Rounds /\ SubscribersKept /\ SinkQuiet
  BY DEF IpcInv
<1>2. /\ sink.on /\ logged' = logged + 1 /\ sink' = [sink EXCEPT !.queue[i] = new]
      /\ running' = running /\ backlog' = backlog /\ serving' = serving /\ peer' = peer
      /\ subscribers' = subscribers /\ handler' = handler /\ prevEmpty' = prevEmpty
      /\ received' = received
  BY DEF Log, server
<1>3. i \in 1..2 /\ queue \in Seq(Nat) /\ logged \in Nat /\ 3 - i \in 1..2 /\ 3 - i # i
  BY <1>1, SinkIs DEF Types
<1>4. from \in 1..Len(queue) + 1
  <2>1. MaxQueue \in Nat \ {0} /\ Len(queue) \in Nat
    BY <1>3, IpcAssumption
  <2> QED
    BY <2>1 DEF Larger
<1>5. Increasing(queue) /\ UpTo(queue, logged)
  BY <1>1, <1>3 DEF Orders
<1> HIDE DEF from
<1>6. /\ new \in Seq(Nat) /\ Increasing(new) /\ UpTo(new, logged + 1)
      /\ \A j \in 1..Len(new) : new[j] = logged + 1 \/ \E k \in 1..Len(queue) : new[j] = queue[k]
  <2> HIDE DEF queue
  <2> QED
    BY <1>3, <1>4, <1>5, LoggedQueue
<1> HIDE DEF new
<1>7. /\ sink' \in [on : BOOLEAN, queue : [1..2 -> Seq(Nat)], index : 1..2]
      /\ sink'.index = i /\ sink'.on = sink.on /\ sink'.queue[i] = new
      /\ \A k \in 1..2 : k # i => sink'.queue[k] = sink.queue[k]
  BY <1>1, <1>2, <1>3, <1>6 DEF Types
<1>8. ASSUME NEW s \in Seq(Nat), UpTo(s, logged), Below(s, queue)
      PROVE  Below(s, new)
  <2> SUFFICES ASSUME NEW k \in 1..Len(s), NEW j \in 1..Len(new)
               PROVE  s[k] < new[j]
    BY DEF Below
  <2>1. s[k] \in Nat /\ s[k] <= logged
    BY <1>8 DEF UpTo
  <2>2. CASE new[j] = logged + 1
    BY <1>3, <2>1, <2>2
  <2>3. CASE \E l \in 1..Len(queue) : new[j] = queue[l]
    BY <1>8, <2>3 DEF Below
  <2> QED
    BY <1>6, <2>2, <2>3
<1>9. ASSUME NEW s \in Seq(Nat), UpTo(s, logged)
      PROVE  UpTo(s, logged + 1)
  <2> SUFFICES ASSUME NEW k \in 1..Len(s)
               PROVE  s[k] <= logged + 1
    BY DEF UpTo
  <2>1. s[k] \in Nat /\ s[k] <= logged
    BY <1>9 DEF UpTo
  <2> QED
    BY <1>3, <2>1
<1>10. Types'
  BY <1>1, <1>2, <1>3, <1>7 DEF Types, Serving
<1>11. Places'
  BY <1>1, <1>2 DEF Places, Waiting, Fresh, Serving
<1>12. Orders'
  <2>1. ASSUME NEW k \in 1..2
        PROVE  Increasing(sink'.queue[k]) /\ UpTo(sink'.queue[k], logged + 1)
    <3>1. sink.queue[k] \in Seq(Nat) /\ Increasing(sink.queue[k]) /\ UpTo(sink.queue[k], logged)
      BY <1>1, SinkIs DEF Orders
    <3> QED
      BY <1>6, <1>7, <1>9, <3>1
  <2>2. ASSUME NEW p \in Peers
        PROVE  /\ Increasing(received[p]) /\ UpTo(received[p], logged + 1)
               /\ Below(received[p], new)
    <3>1. /\ received[p] \in Seq(Nat) /\ Increasing(received[p]) /\ UpTo(received[p], logged)
          /\ Below(received[p], queue)
      BY <1>1 DEF Orders, Types
    <3> QED
      BY <1>8, <1>9, <3>1
  <2> QED
    BY <1>2, <1>7, <2>1, <2>2 DEF Orders
<1>13. Rounds'
  <2>1. handler' = None => sink'.queue[3 - sink'.index] = << >>
    BY <1>1, <1>2, <1>3, <1>7 DEF Rounds
  <2> SUFFICES ASSUME InRound
               PROVE  RoundPlace' /\ RoundGone' /\ RoundOrder'
    BY <1>2, <2>1 DEF Rounds, InRound
  <2>2. /\ RoundPlace /\ RoundGone /\ RoundOrder /\ handler.front \in 1..2 /\ handler.front # i
        /\ Sending \in Seq(Nat)
    BY <1>1, RoundTypes
  <2>3. Sending' = Sending
    BY <1>2, <1>7, <2>2 DEF Sending
  <2>4. RoundPlace' /\ RoundGone'
    BY <1>2, <1>7, <2>2, <2>3 DEF RoundPlace, RoundGone
  <2>5. UpTo(Sending, logged) /\ Below(Sending, queue)
    BY <1>1, <2>2 DEF Orders, Sending, RoundOrder
  <2>6. Below(Sending, new)
    BY <1>8, <2>2, <2>5
  <2>7. RoundOrder'
    BY <1>2, <1>7, <2>2, <2>3, <2>6 DEF RoundOrder
  <2> QED
    BY <2>4, <2>7
<1>14. SubscribersKept' /\ SinkQuiet'
  BY <1>1, <1>2 DEF SubscribersKept, SinkQuiet
<1> QED
  BY <1>10, <1>11, <1>12, <1>13, <1>14 DEF IpcInv

LEMMA TickStep ==
  ASSUME IpcInv, Tick
  PROVE  IpcInv'
<1> DEFINE i == sink.index
<1>1. Types /\ Places /\ Orders /\ Rounds /\ SubscribersKept /\ SinkQuiet
  BY DEF IpcInv
<1>2. /\ handler = None /\ running' = running /\ backlog' = backlog /\ serving' = serving /\ peer' = peer
      /\ subscribers' = subscribers /\ logged' = logged /\ received' = received
  BY DEF Tick, server
<1>3. Places' /\ SubscribersKept'
  BY <1>1, <1>2 DEF Places, Waiting, Fresh, Serving, SubscribersKept
<1>4. /\ i \in 1..2 /\ 3 - i \in 1..2 /\ 3 - (3 - i) = i
      /\ sink.queue \in [1..2 -> Seq(Nat)] /\ sink.queue[3 - i] = << >>
  BY <1>1, <1>2, SinkIs DEF Rounds
<1>5. CASE /\ subscribers = << >> /\ prevEmpty' = TRUE /\ sink' = TurnedOff(sink) /\ handler' = handler
  <2>1. /\ sink'.on = FALSE /\ sink'.queue = << << >>, << >> >> /\ sink'.index = i
        /\ sink'.queue[1] = << >> /\ sink'.queue[2] = << >>
    BY <1>1, <1>5 DEF TurnedOff, Types
  <2>2. << << >>, << >> >> \in [1..2 -> Seq(Nat)]
    BY EmptyQueues
  <2>3. sink' \in [on : BOOLEAN, queue : [1..2 -> Seq(Nat)], index : 1..2]
    BY <1>1, <1>5, <2>2 DEF TurnedOff, Types
  <2>4. Types'
    BY <1>1, <1>2, <1>5, <2>3 DEF Types, Serving
  <2>5. \A k \in 1..2 : sink'.queue[k] = << >>
    BY <2>1
  <2>6. Orders'
    BY <1>1, <1>2, <1>4, <2>1, <2>5 DEF Orders, Increasing, UpTo, Below
  <2>7. Rounds'
    BY <1>2, <1>4, <1>5, <2>1, <2>5 DEF Rounds, InRound
  <2>8. SinkQuiet'
    BY <2>1 DEF SinkQuiet
  <2> QED
    BY <1>3, <2>4, <2>6, <2>7, <2>8 DEF IpcInv
<1>6. CASE /\ subscribers # << >> /\ prevEmpty' = FALSE /\ sink' = Swapped([sink EXCEPT !.on = TRUE])
           /\ handler' = IF sink.queue[i] = << >> THEN None
                         ELSE [front |-> i, at |-> 1, end |-> Len(subscribers), next |-> 1, gone |-> {}]
  <2>1. /\ sink'.on = TRUE /\ sink'.queue = sink.queue /\ sink'.index = 3 - i
        /\ sink' \in [on : BOOLEAN, queue : [1..2 -> Seq(Nat)], index : 1..2]
    BY <1>1, <1>4, <1>6 DEF Swapped, Types
  <2>2. Len(subscribers) \in Nat \ {0}
    BY <1>1, <1>6 DEF Types
  <2>3. handler' \in Round \cup {None, Ended}
    BY <1>4, <1>6, <2>2 DEF Round
  <2>4. Types'
    BY <1>1, <1>2, <2>1, <2>3 DEF Types, Serving
  <2>5. Orders'
    <3>1. \A p \in Peers : Below(received[p], << >>)
      BY DEF Below
    <3> QED
      BY <1>1, <1>2, <1>4, <2>1, <3>1 DEF Orders
  <2>6. Rounds'
    <3>1. CASE sink.queue[i] = << >>
      BY <1>4, <1>6, <2>1, <3>1 DEF Rounds, InRound
    <3>2. CASE sink.queue[i] # << >>
      <4>1. /\ handler' = [front |-> i, at |-> 1, end |-> Len(subscribers), next |-> 1, gone |-> {}]
            /\ handler' \in Round
        BY <1>4, <1>6, <2>2, <3>2 DEF Round
      <4>2. handler' # None
        BY <4>1, NoneAssumption
      <4>3. /\ handler'.front = i /\ handler'.at = 1 /\ handler'.end = Len(subscribers)
            /\ handler'.next = 1 /\ handler'.gone = {}
        BY <4>1
      <4>4. Sending' = sink.queue[i]
        BY <2>1, <4>3 DEF Sending
      <4>5. RoundPlace'
        <5>1. Len(sink.queue[i]) \in Nat \ {0}
          BY <1>4, <3>2
        <5> QED
          BY <1>2, <1>4, <2>1, <2>2, <4>3, <4>4, <5>1 DEF RoundPlace
      <4>6. RoundGone'
        BY <4>3 DEF RoundGone
      <4>7. RoundOrder'
        <5>1. \A k \in 1..Len(subscribers) : Below(received[subscribers[k]], sink.queue[i])
          BY <1>1 DEF Orders, Types
        <5>2. Below(sink.queue[i], << >>)
          BY DEF Below
        <5>3. 1 \in 1..Len(subscribers)
          BY <2>2
        <5>4. \A k \in 1..Len(received[subscribers[1]]), j \in 1..Len(sink.queue[i]) :
                received[subscribers[1]][k] < sink.queue[i][j]
          BY <5>1, <5>3 DEF Below
        <5>5. sink'.queue[sink'.index] = << >>
          BY <1>4, <2>1
        <5> QED
          BY <1>2, <4>3, <4>4, <5>1, <5>2, <5>4, <5>5 DEF RoundOrder
      <4> QED
        BY <4>2, <4>5, <4>6, <4>7 DEF Rounds
    <3> QED
      BY <3>1, <3>2
  <2>7. SinkQuiet'
    BY <1>6 DEF SinkQuiet
  <2> QED
    BY <1>3, <2>4, <2>5, <2>6, <2>7 DEF IpcInv
<1> QED
  BY <1>5, <1>6 DEF Tick

\* logcat_handler ends: every subscriber is closed, and the server does not run.
LEMMA CloseAllPeers ==
  ASSUME Types, NEW s, CloseAll(s)
  PROVE  /\ peer' \in [Peers -> [st : PeerStates, msg : Msgs]]
         /\ \A p \in Peers : \/ peer'[p] = peer[p]
                             \/ peer[p].st = "streaming" /\ peer'[p].st = "left"
<1>1. peer' = [p \in Peers |-> IF peer[p].st = "streaming" /\ p \in ToSet(s)
                               THEN [peer[p] EXCEPT !.st = "left"] ELSE peer[p]]
  BY DEF CloseAll
<1>2. ASSUME NEW p \in Peers
      PROVE  /\ peer'[p] \in [st : PeerStates, msg : Msgs]
             /\ \/ peer'[p] = peer[p]
                \/ peer[p].st = "streaming" /\ peer'[p].st = "left"
  BY <1>1 DEF Types, PeerStates
<1> QED
  BY <1>1, <1>2

LEMMA CloseAllStep ==
  ASSUME IpcInv, ~running, NEW s, CloseAll(s),
         running' = running, backlog' = backlog, serving' = serving, prevEmpty' = prevEmpty, logged' = logged,
         Types', Orders', SinkQuiet',
         \A p \in Peers : received'[p] = received[p] \/ p \in ToSet(subscribers)
  PROVE  IpcInv'
<1>1. Types /\ Places
  BY DEF IpcInv
<1>2. handler' = Ended /\ subscribers' = << >>
  BY DEF CloseAll
<1>3. \A p \in Peers : peer'[p] = peer[p] \/ (peer[p].st = "streaming" /\ peer'[p].st = "left")
  BY <1>1, CloseAllPeers
<1>4. ToSet(subscribers') = {} /\ Distinct(subscribers')
  BY <1>2, EmptyToSet
<1>5. Serving' = Serving /\ \A p \in Peers : Waiting(p)' = Waiting(p) /\ (Fresh(p)' => Fresh(p))
  BY <1>3 DEF Serving, Waiting, Fresh
<1>6. \A p \in Peers : Waiting(p)' => peer'[p].st \in {"connected", "asked", "left"}
  BY <1>1, <1>3, <1>5 DEF Places
<1>7. \A p \in Peers : Fresh(p)' => p \notin ToSet(subscribers') /\ received'[p] = << >>
  BY <1>1, <1>4, <1>5 DEF Places
<1>8. Places'
  BY <1>1, <1>4, <1>5, <1>6, <1>7 DEF Places, Serving
<1>9. Rounds'
  BY <1>2, NoneAssumption DEF Rounds, InRound
<1>10. SubscribersKept'
  BY DEF SubscribersKept
<1> QED
  BY <1>8, <1>9, <1>10 DEF IpcInv

LEMMA HandlerEndsStep ==
  ASSUME IpcInv, HandlerEnds
  PROVE  IpcInv'
<1>1. /\ ~running /\ CloseAll(subscribers) /\ running' = running /\ backlog' = backlog
      /\ serving' = serving /\ prevEmpty' = prevEmpty /\ sink' = sink /\ logged' = logged
      /\ received' = received
  BY DEF HandlerEnds, server
<1>2. Types /\ Orders /\ SinkQuiet
  BY DEF IpcInv
<1>3. handler' = Ended /\ subscribers' = << >> /\ peer' \in [Peers -> [st : PeerStates, msg : Msgs]]
  BY <1>1, <1>2, CloseAllPeers DEF CloseAll
<1>4. Types'
  BY <1>1, <1>2, <1>3 DEF Types, Serving
<1>5. Orders' /\ SinkQuiet'
  BY <1>1, <1>2 DEF Orders, SinkQuiet
<1> QED
  BY <1>1, <1>4, <1>5, CloseAllStep

\* A message that is newer than all a peer has been sent, and older than those
\* collected, goes behind them.
LEMMA AppendOrder ==
  ASSUME NEW s \in Seq(Nat), NEW m \in Nat, NEW n \in Nat, NEW t \in Seq(Nat),
         Increasing(s), UpTo(s, n), Below(s, t), m <= n,
         \A i \in 1..Len(s) : s[i] < m,
         \A j \in 1..Len(t) : m < t[j]
  PROVE  /\ Append(s, m) \in Seq(Nat) /\ Increasing(Append(s, m)) /\ UpTo(Append(s, m), n)
         /\ Below(Append(s, m), t)
<1> DEFINE new == Append(s, m)
<1>1. /\ new \in Seq(Nat) /\ Len(s) \in Nat /\ Len(new) = Len(s) + 1 /\ new[Len(s) + 1] = m
      /\ \A j \in 1..Len(s) : new[j] = s[j]
  BY AppendProperties
<1> HIDE DEF new
<1>2. \A j \in 1..Len(new) : j \in 1..Len(s) \/ j = Len(s) + 1
  BY <1>1
<1>3. Increasing(new)
  <2> SUFFICES ASSUME NEW i \in 1..Len(new), NEW j \in 1..Len(new), i < j
               PROVE  new[i] < new[j]
    BY DEF Increasing
  <2>1. i \in 1..Len(s)
    BY <1>1
  <2>2. CASE j \in 1..Len(s)
    BY <1>1, <2>1, <2>2 DEF Increasing
  <2>3. CASE j = Len(s) + 1
    BY <1>1, <2>1, <2>3
  <2> QED
    BY <1>2, <2>2, <2>3
<1>4. UpTo(new, n)
  BY <1>1, <1>2 DEF UpTo
<1>5. Below(new, t)
  BY <1>1, <1>2 DEF Below
<1> QED
  BY <1>1, <1>3, <1>4, <1>5 DEF new

\* What sending one message does to what has been received.
LEMMA SentOrder ==
  ASSUME IpcInv, SendLog
  PROVE  /\ InRound /\ received' \in [Peers -> Seq(Nat)]
         /\ \A q \in Peers : q # subscribers[handler.at] => received'[q] = received[q]
         /\ \/ received' = received
            \/ /\ peer[subscribers[handler.at]].st # "left"
               /\ received'[subscribers[handler.at]] = Append(received[subscribers[handler.at]], Sending[handler.next])
         /\ \A q \in Peers : /\ Increasing(received'[q]) /\ UpTo(received'[q], logged)
                             /\ Below(received'[q], sink.queue[sink.index])
<1> DEFINE p == subscribers[handler.at]
           m == Sending[handler.next]
<1>1. Types /\ Orders /\ Rounds /\ InRound
  BY DEF IpcInv, SendLog, InRound
<1>2. /\ RoundPlace /\ RoundGone /\ RoundOrder /\ handler.front \in 1..2 /\ sink.index \in 1..2
      /\ handler.next \in 1..Len(Sending) /\ Sending \in Seq(Nat) /\ sink.queue[sink.index] \in Seq(Nat)
      /\ m \in Nat
      /\ p \in Peers /\ handler.at \in 1..Len(subscribers)
  BY <1>1, RoundTypes
<1>3. m \in Nat /\ m <= logged /\ logged \in Nat
  <2>1. logged \in Nat /\ m \in Nat
    BY <1>1, <1>2 DEF Types
  <2>2. UpTo(Sending, logged)
    BY <1>1, <1>2 DEF Orders, Sending
  <2> QED
    BY <1>2, <2>1, <2>2 DEF UpTo
<1>4. \A i \in 1..Len(received[p]) : received[p][i] < m
  <2>1. handler.next >= handler.next
    BY <1>2
  <2> QED
    BY <1>2, <2>1 DEF RoundOrder
<1>5. \A j \in 1..Len(sink.queue[sink.index]) : m < sink.queue[sink.index][j]
  BY <1>2 DEF RoundOrder, Below
<1>6. \A q \in Peers : /\ received[q] \in Seq(Nat) /\ Increasing(received[q]) /\ UpTo(received[q], logged)
                       /\ Below(received[q], sink.queue[sink.index])
  BY <1>1 DEF Types, Orders
<1>7. received' = IF peer[p].st = "left" THEN received ELSE [received EXCEPT ![p] = Append(@, m)]
  BY DEF SendLog, Sending
<1> HIDE DEF m, p
<1>8. /\ Append(received[p], m) \in Seq(Nat) /\ Increasing(Append(received[p], m))
      /\ UpTo(Append(received[p], m), logged) /\ Below(Append(received[p], m), sink.queue[sink.index])
  BY <1>2, <1>3, <1>4, <1>5, <1>6, AppendOrder
<1>9. CASE received' = received
  BY <1>1, <1>6, <1>9 DEF Types
<1>10. CASE peer[p].st # "left" /\ received' = [received EXCEPT ![p] = Append(received[p], m)]
  <2>1. received' \in [Peers -> Seq(Nat)] /\ received'[p] = Append(received[p], m)
        /\ \A q \in Peers : q # p => received'[q] = received[q]
    BY <1>1, <1>2, <1>8, <1>10 DEF Types
  <2>2. \A q \in Peers : /\ Increasing(received'[q]) /\ UpTo(received'[q], logged)
                         /\ Below(received'[q], sink.queue[sink.index])
    BY <1>6, <1>8, <2>1
  <2> QED
    BY <1>1, <1>10, <2>1, <2>2 DEF p, m
<1> QED
  BY <1>7, <1>9, <1>10

\* The next message, or the next subscriber, of the same round.
LEMMA SendOnStep ==
  ASSUME IpcInv, SendLog, sink' = sink, subscribers' = subscribers, peer' = peer,
         NEW gone, gone = (IF peer[subscribers[handler.at]].st = "left"
                           THEN handler.gone \cup {handler.at} ELSE handler.gone),
         \/ /\ peer[subscribers[handler.at]].st # "left" /\ handler.next # Len(Sending)
            /\ handler' = [handler EXCEPT !.next = @ + 1]
            /\ received'[subscribers[handler.at]] = Append(received[subscribers[handler.at]], Sending[handler.next])
         \/ /\ handler.at # handler.end
            /\ handler' = [handler EXCEPT !.at = @ + 1, !.next = 1, !.gone = gone]
  PROVE  IpcInv'
<1> DEFINE n == Len(subscribers)
           p == subscribers[handler.at]
<1>1. Types /\ Places /\ Orders /\ Rounds /\ SubscribersKept /\ SinkQuiet
  BY DEF IpcInv
<1>2. /\ InRound /\ received' \in [Peers -> Seq(Nat)]
      /\ \A q \in Peers : q # p => received'[q] = received[q]
      /\ \A q \in Peers : /\ Increasing(received'[q]) /\ UpTo(received'[q], logged)
                          /\ Below(received'[q], sink.queue[sink.index])
  BY SentOrder
<1>3. /\ handler \in Round /\ RoundPlace /\ RoundGone /\ RoundOrder
      /\ handler.at \in 1..n /\ handler.end \in 1..n
      /\ handler.next \in 1..Len(Sending) /\ Sending \in Seq(Nat) /\ Sending[handler.next] \in Nat
      /\ \A k \in 1..n : subscribers[k] \in Peers /\ received[subscribers[k]] \in Seq(Nat)
  BY <1>1, <1>2, RoundTypes
<1>4. /\ running' = running /\ backlog' = backlog /\ serving' = serving /\ prevEmpty' = prevEmpty
      /\ logged' = logged
  BY DEF SendLog, server
<1>5. gone \in SUBSET Nat /\ \A k \in gone : k \in 1..n /\ peer[subscribers[k]].st = "left"
  BY <1>3 DEF RoundGone, Round
<1>6. handler' \in Round
  <2>1. handler.next \in Nat /\ handler.next + 1 \in Nat /\ handler.at \in Nat /\ handler.at + 1 \in Nat /\ 1 \in Nat
    BY <1>3
  <2>2. CASE handler' = [handler EXCEPT !.next = @ + 1]
    BY <1>3, <2>1, <2>2 DEF Round
  <2>3. CASE handler' = [handler EXCEPT !.at = @ + 1, !.next = 1, !.gone = gone]
    BY <1>3, <1>5, <2>1, <2>3 DEF Round
  <2> QED
    BY <2>2, <2>3
<1>7. Types'
  BY <1>1, <1>2, <1>4, <1>6 DEF Types, Serving
<1>8. Places'
  <2>1. \A q \in Peers : (Waiting(q)' <=> Waiting(q)) /\ (Fresh(q)' <=> Fresh(q))
    BY <1>4 DEF Waiting, Fresh, Serving
  <2>2. p \in Peers /\ p \in ToSet(subscribers)
    <3>1. ToSet(subscribers) = {subscribers[k] : k \in 1..n}
      BY <1>1, ToSetOf DEF Types
    <3> QED
      BY <1>3, <3>1
  <2>3. \A q \in Peers : Fresh(q) => q \notin ToSet(subscribers) /\ q # p /\ received'[q] = << >>
    BY <1>1, <1>2, <2>2 DEF Places
  <2> QED
    BY <1>1, <1>4, <2>1, <2>3 DEF Places, Serving
<1>9. Orders'
  BY <1>1, <1>2, <1>4 DEF Orders
<1>10. SubscribersKept' /\ SinkQuiet'
  BY <1>1, <1>4 DEF SubscribersKept, SinkQuiet
<1>11. handler'.front = handler.front /\ Sending' = Sending /\ handler' # None
  BY <1>3, <1>6, NoneAssumption DEF Round, Sending
<1>12. ASSUME NEW k \in 1..n, k # handler.at
       PROVE  subscribers[k] # p /\ received'[subscribers[k]] = received[subscribers[k]]
  <2>1. subscribers[k] # p
    BY <1>1, <1>3, <1>12 DEF Places, Distinct
  <2>2. subscribers[k] \in Peers
    BY <1>3
  <2> QED
    BY <1>2, <2>1, <2>2
<1>13. ASSUME NEW k \in 1..n, k > handler.at
       PROVE  Below(received'[subscribers[k]], Sending)
  <2>1. Below(received[subscribers[k]], Sending)
    BY <1>3, <1>13 DEF RoundOrder
  <2>2. k # handler.at
    BY <1>3, <1>13
  <2>3. received'[subscribers[k]] = received[subscribers[k]]
    BY <1>12, <2>2
  <2> QED
    BY <2>1, <2>3
<1>14. RoundPlace' /\ RoundGone' /\ RoundOrder'
  <2>1. CASE /\ peer[p].st # "left" /\ handler.next # Len(Sending)
             /\ handler' = [handler EXCEPT !.next = @ + 1]
             /\ received'[p] = Append(received[p], Sending[handler.next])
    <3>1. handler'.at = handler.at /\ handler'.end = handler.end /\ handler'.gone = handler.gone
          /\ handler'.next = handler.next + 1
      BY <1>3, <2>1 DEF Round
    <3>2. RoundPlace'
      <4>1. handler.next + 1 \in 1..Len(Sending)
        BY <1>3, <2>1
      <4> QED
        BY <1>3, <1>11, <3>1, <4>1 DEF RoundPlace
    <3>3. RoundGone'
      BY <1>3, <3>1 DEF RoundGone
    <3>4. ASSUME NEW k \in 1..n, k > handler.at
          PROVE  Below(received'[subscribers[k]], Sending)
      BY <1>13, <3>4
    <3>5. ASSUME NEW i \in 1..Len(received'[p]), NEW j \in 1..Len(Sending), j >= handler.next + 1
          PROVE  received'[p][i] < Sending[j]
      <4>1. /\ Len(received[p]) \in Nat /\ Len(received'[p]) = Len(received[p]) + 1
            /\ received'[p][Len(received[p]) + 1] = Sending[handler.next]
            /\ \A k \in 1..Len(received[p]) : received'[p][k] = received[p][k]
        <5>1. received[p] \in Seq(Nat) /\ Sending[handler.next] \in Nat
          BY <1>3
        <5> HIDE DEF p
        <5> QED
          BY <2>1, <5>1, AppendProperties
      <4>2. CASE i \in 1..Len(received[p])
        <5>1. j >= handler.next
          BY <1>3, <3>5
        <5> QED
          BY <1>3, <4>1, <4>2, <5>1 DEF RoundOrder
      <4>3. CASE i = Len(received[p]) + 1
        <5>1. Increasing(Sending)
          BY <1>1, <1>3 DEF Orders, Sending, Round
        <5>2. handler.next < j
          BY <1>3, <3>5
        <5>3. Sending[handler.next] < Sending[j]
          BY <1>3, <5>1, <5>2 DEF Increasing
        <5> QED
          BY <4>1, <4>3, <5>3
      <4>4. i \in 1..Len(received[p]) \/ i = Len(received[p]) + 1
        BY <4>1
      <4> QED
        BY <4>2, <4>3, <4>4
    <3>6. RoundOrder'
      BY <1>3, <1>11, <3>1, <3>4, <3>5 DEF RoundOrder
    <3> QED
      BY <3>2, <3>3, <3>6
  <2>2. CASE /\ handler.at # handler.end
             /\ handler' = [handler EXCEPT !.at = @ + 1, !.next = 1, !.gone = gone]
    <3>1. handler'.at = handler.at + 1 /\ handler'.end = handler.end /\ handler'.gone = gone
          /\ handler'.next = 1
      BY <1>3, <2>2 DEF Round
    <3>2. handler.at + 1 \in 1..n /\ handler.at + 1 > handler.at /\ handler.at + 1 <= handler.end
      BY <1>3, <2>2 DEF RoundPlace
    <3>3. RoundPlace'
      <4>1. 1 \in 1..Len(Sending) /\ 1 <= handler.at + 1
        BY <1>3
      <4> QED
        BY <1>3, <1>11, <3>1, <3>2, <4>1 DEF RoundPlace
    <3>4. RoundGone'
      BY <1>5, <3>1 DEF RoundGone
    <3>5. ASSUME NEW k \in 1..n, k > handler.at
          PROVE  Below(received'[subscribers[k]], Sending)
      BY <1>13, <3>5
    <3>6. \A k \in 1..n : k > handler.at + 1 => k > handler.at
      BY <1>3
    <3>7. Below(received'[subscribers[handler.at + 1]], Sending)
      BY <3>2, <3>5
    <3>8. RoundOrder'
      <4>1. \A k \in 1..n : k > handler.at + 1 => Below(received'[subscribers[k]], Sending)
        BY <3>5, <3>6
      <4>2. \A i \in 1..Len(received'[subscribers[handler.at + 1]]), j \in 1..Len(Sending) :
              received'[subscribers[handler.at + 1]][i] < Sending[j]
        BY <3>7 DEF Below
      <4> QED
        BY <1>3, <1>11, <3>1, <4>1, <4>2 DEF RoundOrder
    <3> QED
      BY <3>3, <3>4, <3>8
  <2> QED
    BY <2>1, <2>2
<1>15. Rounds'
  BY <1>11, <1>14 DEF Rounds
<1> QED
  BY <1>7, <1>8, <1>9, <1>10, <1>15 DEF IpcInv

\* The round ends: the queue in front is emptied, and whoever has left is dropped.
LEMMA EndRoundStep ==
  ASSUME IpcInv, SendLog,
         NEW gone, gone = (IF peer[subscribers[handler.at]].st = "left"
                           THEN handler.gone \cup {handler.at} ELSE handler.gone),
         EndRound(gone)
  PROVE  IpcInv'
<1> DEFINE n == Len(subscribers)
           p == subscribers[handler.at]
<1>1. Types /\ Places /\ Orders /\ Rounds /\ SubscribersKept /\ SinkQuiet
  BY DEF IpcInv
<1>2. /\ InRound /\ received' \in [Peers -> Seq(Nat)]
      /\ \A q \in Peers : q # p => received'[q] = received[q]
      /\ \A q \in Peers : /\ Increasing(received'[q]) /\ UpTo(received'[q], logged)
                          /\ Below(received'[q], sink.queue[sink.index])
  BY SentOrder
<1>3. /\ handler \in Round /\ RoundPlace /\ RoundGone /\ handler.at \in 1..n
      /\ handler.front \in 1..2 /\ sink.index \in 1..2 /\ handler.front # sink.index
  BY <1>1, <1>2, RoundTypes
<1>4. /\ running' = running /\ backlog' = backlog /\ serving' = serving /\ prevEmpty' = prevEmpty
      /\ logged' = logged /\ sink' = [sink EXCEPT !.queue[handler.front] = << >>]
  BY DEF SendLog, EndRound, Cleared, server
<1>5. \A k \in gone : k \in 1..n /\ peer[subscribers[k]].st = "left"
  BY <1>3 DEF RoundGone
<1>6. /\ sink' \in [on : BOOLEAN, queue : [1..2 -> Seq(Nat)], index : 1..2]
      /\ sink'.on = sink.on /\ sink'.index = sink.index /\ sink'.queue[handler.front] = << >>
      /\ \A k \in 1..2 : k # handler.front => sink'.queue[k] = sink.queue[k]
  <2> DEFINE queue == [sink.queue EXCEPT ![handler.front] = << >>]
  <2>1. sink.queue \in [1..2 -> Seq(Nat)] /\ sink.index \in 1..2 /\ sink.on \in BOOLEAN
    BY <1>1 DEF Types
  <2>2. /\ queue \in [1..2 -> Seq(Nat)] /\ queue[handler.front] = << >>
        /\ \A k \in 1..2 : k # handler.front => queue[k] = sink.queue[k]
    BY <1>3, <2>1
  <2>3. sink' = [on |-> sink.on, queue |-> queue, index |-> sink.index]
    BY <1>1, <1>4 DEF Types
  <2> HIDE DEF queue
  <2> QED
    BY <2>1, <2>2, <2>3
<1>7. Orders'
  <2>1. ASSUME NEW k \in 1..2
        PROVE  Increasing(sink'.queue[k]) /\ UpTo(sink'.queue[k], logged)
    <3>1. CASE k = handler.front
      BY <1>6, <3>1 DEF Increasing, UpTo
    <3>2. CASE k # handler.front
      BY <1>1, <1>6, <3>2 DEF Orders
    <3> QED
      BY <3>1, <3>2
  <2>2. sink'.queue[sink'.index] = sink.queue[sink.index]
    BY <1>3, <1>6
  <2> QED
    BY <1>2, <1>4, <2>1, <2>2 DEF Orders
<1>8. SinkQuiet'
  <2> SUFFICES ASSUME prevEmpty
               PROVE  ~sink'.on /\ sink'.queue = << << >>, << >> >>
    BY <1>4 DEF SinkQuiet
  <2>1. ~sink.on /\ sink.queue = << << >>, << >> >>
    BY <1>1 DEF SinkQuiet
  <2>2. sink'.queue \in [1..2 -> Seq(Nat)] /\ sink.queue \in [1..2 -> Seq(Nat)]
    BY <1>1, <1>6 DEF Types
  <2>3. \A k \in 1..2 : sink'.queue[k] = sink.queue[k]
    <3>1. sink.queue[1] = << >> /\ sink.queue[2] = << >>
      BY <2>1
    <3>2. sink.queue[handler.front] = << >>
      BY <1>3, <3>1
    <3> QED
      BY <1>6, <3>2
  <2>4. sink'.queue = sink.queue
    BY <2>2, <2>3, SameQueues
  <2> QED
    BY <1>6, <2>1, <2>4
<1>9. p \in Peers /\ ToSet(subscribers) = {subscribers[k] : k \in 1..n} /\ p \in ToSet(subscribers)
  <2>1. ToSet(subscribers) = {subscribers[k] : k \in 1..n} /\ ToSet(subscribers) \subseteq Peers
    BY <1>1, ToSetOf DEF Types
  <2> QED
    BY <1>3, <2>1
<1>10. CASE ~running /\ CloseAll(WithoutAll(gone))
  <2>1. handler' = Ended /\ subscribers' = << >> /\ peer' \in [Peers -> [st : PeerStates, msg : Msgs]]
    BY <1>1, <1>10, CloseAllPeers DEF CloseAll
  <2>2. Types'
    BY <1>1, <1>2, <1>4, <1>6, <2>1 DEF Types, Serving
  <2>3. \A q \in Peers : received'[q] = received[q] \/ q \in ToSet(subscribers)
    BY <1>2, <1>9
  <2> QED
    BY <1>4, <1>7, <1>8, <1>10, <2>2, <2>3, CloseAllStep
<1>11. CASE handler' = None /\ subscribers' = WithoutAll(gone) /\ peer' = peer
  <2>1. /\ subscribers' \in Seq(Peers) /\ Distinct(subscribers')
        /\ ToSet(subscribers') = {subscribers[k] : k \in 1..n \ gone}
    BY <1>1, <1>11, ErasesExactly DEF Types, Places
  <2>2. ToSet(subscribers') \subseteq ToSet(subscribers)
    BY <1>9, <2>1
  <2>3. Types'
    BY <1>1, <1>2, <1>4, <1>6, <1>11, <2>1 DEF Types, Serving
  <2>4. Places'
    <3>1. \A q \in Peers : (Waiting(q)' <=> Waiting(q)) /\ (Fresh(q)' <=> Fresh(q))
      BY <1>4, <1>11 DEF Waiting, Fresh, Serving
    <3>2. \A q \in Peers : Fresh(q) => q \notin ToSet(subscribers') /\ received'[q] = << >>
      BY <1>1, <1>2, <1>9, <2>2 DEF Places
    <3> QED
      BY <1>1, <1>4, <1>11, <2>1, <2>2, <3>1, <3>2 DEF Places, Serving
  <2>5. Rounds'
    <3>1. sink'.queue[3 - sink'.index] = << >>
      BY <1>3, <1>6 DEF RoundPlace
    <3> QED
      BY <1>11, <3>1 DEF Rounds, InRound
  <2>6. SubscribersKept'
    <3> SUFFICES ASSUME running, NEW q \in Peers, peer[q].st = "streaming"
                 PROVE  q \in ToSet(subscribers')
      BY <1>4, <1>11 DEF SubscribersKept
    <3>1. q \in ToSet(subscribers)
      BY <1>1 DEF SubscribersKept
    <3>2. PICK k \in 1..n : q = subscribers[k]
      BY <1>9, <3>1
    <3>3. k \notin gone
      BY <1>5, <3>2
    <3> QED
      BY <2>1, <3>2, <3>3
  <2> QED
    BY <1>7, <1>8, <2>3, <2>4, <2>5, <2>6 DEF IpcInv
<1> QED
  BY <1>10, <1>11 DEF EndRound

LEMMA SendLogStep ==
  ASSUME IpcInv, SendLog
  PROVE  IpcInv'
<1> DEFINE p == subscribers[handler.at]
           fails == peer[p].st = "left"
           gone == IF fails THEN handler.gone \cup {handler.at} ELSE handler.gone
<1>1. CASE EndRound(gone)
  <2> HIDE DEF gone
  <2> QED
    BY <1>1, EndRoundStep DEF gone
<1>2. CASE /\ handler.at # handler.end
           /\ handler' = [handler EXCEPT !.at = @ + 1, !.next = 1, !.gone = gone]
           /\ sink' = sink /\ subscribers' = subscribers /\ peer' = peer
  BY <1>2, SendOnStep
<1>3. CASE /\ ~fails /\ handler.next # Len(Sending)
           /\ handler' = [handler EXCEPT !.next = @ + 1]
           /\ sink' = sink /\ subscribers' = subscribers /\ peer' = peer
  <2>1. received'[p] = Append(received[p], Sending[handler.next])
    <3>1. p \in Peers /\ received \in [Peers -> Seq(Nat)]
      BY RoundTypes DEF IpcInv, Types, SendLog, InRound
    <3>2. received' = [received EXCEPT ![p] = Append(@, Sending[handler.next])]
      BY <1>3 DEF SendLog, Sending
    <3> QED
      BY <3>1, <3>2
  <2> QED
    BY <1>3, <2>1, SendOnStep
<1>4. \/ EndRound(gone)
      \/ /\ handler.at # handler.end
         /\ handler' = [handler EXCEPT !.at = @ + 1, !.next = 1, !.gone = gone]
         /\ sink' = sink /\ subscribers' = subscribers /\ peer' = peer
      \/ /\ ~fails /\ handler.next # Len(Sending)
         /\ handler' = [handler EXCEPT !.next = @ + 1]
         /\ sink' = sink /\ subscribers' = subscribers /\ peer' = peer
  BY DEF SendLog, Sending
<1> QED
  BY <1>1, <1>2, <1>3, <1>4

LEMMA IpcStep ==
  ASSUME IpcInv, [Next]_vars
  PROVE  IpcInv'
<1>1. CASE UNCHANGED vars
  <2>1. /\ running' = running /\ backlog' = backlog /\ serving' = serving /\ peer' = peer
        /\ subscribers' = subscribers /\ handler' = handler /\ sink' = sink
        /\ prevEmpty' = prevEmpty /\ logged' = logged /\ received' = received
    BY <1>1 DEF vars, server, logcat
  <2>2. peer' \in [Peers -> [st : PeerStates, msg : Msgs]] /\ received' \in [Peers -> Seq(Nat)]
    BY <2>1 DEF IpcInv, Types
  <2> QED
    BY <2>1, <2>2, StatesChanged
<1>2. CASE \E p \in Peers : Connect(p) \/ (\E msg \in Messages[p] : Ask(p, msg)) \/ Leave(p)
  BY <1>2, ConnectStep, AskStep, LeaveStep
<1>3. CASE Accept \/ Receive \/ Operate \/ SetMaxPages \/ Reply
  BY <1>3, AcceptStep, ReceiveStep, OperateStep, SetMaxPagesStep, ReplyStep
<1>4. CASE Log \/ Tick \/ SendLog \/ HandlerEnds \/ Stop
  BY <1>4, LogStep, TickStep, SendLogStep, HandlerEndsStep, StopStep
<1> QED
  BY <1>1, <1>2, <1>3, <1>4 DEF Next

-----------------------------------------------------------------------------
(* Theorems *)

THEOREM IpcInvariant == Spec => []IpcInv
<1>1. Init => IpcInv
  BY IpcInit
<1>2. IpcInv /\ [Next]_vars => IpcInv'
  BY IpcStep
<1> QED
  BY <1>1, <1>2, PTL DEF Spec

\* While the server runs, nobody who subscribed and has not left is dropped by the
\* erasure of those who could not be reached (logcat_handler), for any number of
\* peers and whoever comes or goes during a round.
THEOREM SubscribersAreKept == Spec => []SubscribersKept
<1>1. IpcInv => SubscribersKept
  BY DEF IpcInv
<1> QED
  BY <1>1, IpcInvariant, PTL

\* What a subscriber has been sent increases strictly: logcat_handler sends in
\* order and nothing twice, for queues of any size and any number of messages.
THEOREM LogsAreInOrder == Spec => []LogsInOrder
<1>1. IpcInv => LogsInOrder
  <2> SUFFICES ASSUME IpcInv, NEW p \in Peers, NEW i \in 1..Len(received[p]) - 1
               PROVE  received[p][i] < received[p][i + 1]
    BY DEF LogsInOrder
  <2>1. received[p] \in Seq(Nat) /\ Increasing(received[p])
    BY DEF IpcInv, Types, Orders
  <2>2. i \in 1..Len(received[p]) /\ i + 1 \in 1..Len(received[p]) /\ i < i + 1
    BY <2>1
  <2> QED
    BY <2>1, <2>2 DEF Increasing
<1> QED
  BY <1>1, IpcInvariant, PTL

-----------------------------------------------------------------------------
(* Sessions of the sink: from when logcat_handler turns it on until it turns it off *)

Later(s, n) == \A i \in 1..Len(s) : s[i] > n

\* What is collected and what was sent belongs to the session: when the last
\* subscriber is gone nothing is left of either.
Session ==
  /\ since \in Nat /\ since <= logged
  /\ sink.on <=> ~prevEmpty
  /\ InRound => sink.on
  /\ \A i \in 1..2 : Later(sink.queue[i], since)
  /\ \A p \in Peers : Later(received[p], since)
  /\ running => \A p \in Peers : received[p] # << >> => peer[p].st = "streaming" /\ sink.on

\* Steps of peers and of the server take messages away at most, with their peer.
LEMMA SessionKept ==
  ASSUME Types, Session, UNCHANGED <<prevEmpty, sink, logged, since>>,
         handler' \in {handler, None, Ended}, running' => running,
         \A p \in Peers : received'[p] = received[p] \/ received'[p] = << >>,
         running' => \A p \in Peers :
           received'[p] # << >> /\ peer[p].st = "streaming" => peer'[p].st = "streaming"
  PROVE  Session'
<1>1. \A p \in Peers : Later(received'[p], since)
  BY DEF Session, Later
<1>2. InRound' => InRound
  BY DEF InRound
<1>3. running' => \A p \in Peers : received'[p] # << >> => peer'[p].st = "streaming" /\ sink.on
  BY DEF Session
<1> QED
  BY <1>1, <1>2, <1>3 DEF Session

LEMMA PeerSession ==
  ASSUME Types, Session, NEW p \in Peers,
         Connect(p) \/ (\E msg \in Messages[p] : Ask(p, msg)) \/ Leave(p)
  PROVE  Session'
<1>1. peer \in [Peers -> [st : PeerStates, msg : Msgs]] /\ received \in [Peers -> Seq(Nat)]
  BY DEF Types
<1>2. /\ UNCHANGED <<prevEmpty, sink, logged, since>> /\ handler' = handler /\ running' = running
  BY DEF Connect, Ask, Leave, server, logcat
<1>3. CASE Connect(p) \/ Leave(p)
  <2>1. \A q \in Peers : q # p => peer'[q] = peer[q] /\ received'[q] = received[q]
    BY <1>1, <1>3 DEF Connect, Leave
  <2>2. received'[p] = received[p] \/ received'[p] = << >>
    BY <1>1, <1>3 DEF Connect, Leave
  <2>3. received'[p] # << >> => peer[p].st # "streaming"
    BY <1>1, <1>3 DEF Connect, Leave
  <2> QED
    BY <1>2, <2>1, <2>2, <2>3, SessionKept
<1>4. CASE \E msg \in Messages[p] : Ask(p, msg)
  <2>1. peer[p].st = "connected" /\ received' = received /\ \A q \in Peers : q # p => peer'[q] = peer[q]
    BY <1>1, <1>4 DEF Ask
  <2> QED
    BY <1>2, <2>1, SessionKept
<1> QED
  BY <1>3, <1>4

\* Whom the server serves has not been sent anything yet.
LEMMA ServerSession ==
  ASSUME IpcInv, Session, Accept \/ Receive \/ Operate \/ SetMaxPages \/ Reply
  PROVE  Session'
<1>1. Types /\ Places /\ peer \in [Peers -> [st : PeerStates, msg : Msgs]]
  BY DEF IpcInv, Types
<1>2. /\ UNCHANGED <<prevEmpty, sink, logged, since>> /\ handler' = handler /\ running' = running
      /\ received' = received
  BY DEF Accept, Receive, Subscribe, Operate, SetMaxPages, Reply, server, logcat
<1>3. CASE peer' = peer
  BY <1>1, <1>2, <1>3, SessionKept
<1>4. CASE Serving /\ \E st : peer' = [peer EXCEPT ![serving.peer] = Settled(serving.peer, st)]
  <2>1. serving.peer \in Peers /\ received[serving.peer] = << >>
    BY <1>1, <1>4 DEF Types, Places, Fresh, Waiting
  <2>2. \A q \in Peers : q # serving.peer => peer'[q] = peer[q]
    BY <1>1, <1>4
  <2> QED
    BY <1>1, <1>2, <2>1, <2>2, SessionKept
<1>5. peer' = peer \/ (Serving /\ \E st : peer' = [peer EXCEPT ![serving.peer] = Settled(serving.peer, st)])
  BY DEF Accept, Receive, Subscribe, Operate, SetMaxPages, Reply, At, Serving
<1> QED
  BY <1>3, <1>4, <1>5

LEMMA LogSession ==
  ASSUME IpcInv, Session, Log
  PROVE  Session'
<1> DEFINE i == sink.index
           queue == sink.queue[i]
           from == Larger(Len(queue) + 2, MaxQueue + 1) - MaxQueue
           new == Append(SubSeq(queue, from, Len(queue)), logged + 1)
<1>1. Types /\ Orders
  BY DEF IpcInv
<1>2. /\ sink.on /\ logged' = logged + 1 /\ sink' = [sink EXCEPT !.queue[i] = new] /\ since' = since
      /\ running' = running /\ peer' = peer /\ handler' = handler /\ prevEmpty' = prevEmpty
      /\ received' = received
  BY DEF Log, server
<1>3. i \in 1..2 /\ queue \in Seq(Nat) /\ logged \in Nat
  BY <1>1, SinkIs DEF Types
<1>4. from \in 1..Len(queue) + 1
  <2>1. MaxQueue \in Nat \ {0} /\ Len(queue) \in Nat
    BY <1>3, IpcAssumption
  <2> QED
    BY <2>1 DEF Larger
<1>5. Increasing(queue) /\ UpTo(queue, logged)
  BY <1>1, <1>3 DEF Orders
<1> HIDE DEF from
<1>6. \A j \in 1..Len(new) : new[j] = logged + 1 \/ \E k \in 1..Len(queue) : new[j] = queue[k]
  <2> HIDE DEF queue
  <2> QED
    BY <1>3, <1>4, <1>5, LoggedQueue
<1> HIDE DEF new
<1>7. /\ sink'.on = sink.on /\ sink'.queue[i] = new
      /\ \A k \in 1..2 : k # i => sink'.queue[k] = sink.queue[k]
  BY <1>1, <1>2, <1>3 DEF Types
<1>8. since \in Nat /\ since <= logged /\ Later(queue, since)
  BY <1>3 DEF Session
<1>9. Later(new, since)
  <2> SUFFICES ASSUME NEW j \in 1..Len(new) PROVE new[j] > since
    BY DEF Later
  <2>1. CASE new[j] = logged + 1
    BY <1>3, <1>8, <2>1
  <2>2. CASE \E k \in 1..Len(queue) : new[j] = queue[k]
    BY <1>8, <2>2 DEF Later
  <2> QED
    BY <1>6, <2>1, <2>2
<1>10. \A k \in 1..2 : Later(sink'.queue[k], since')
  BY <1>2, <1>7, <1>9 DEF Session
<1>11. since' \in Nat /\ since' <= logged'
  BY <1>2, <1>3, <1>8
<1>12. InRound' => sink'.on
  BY <1>2, <1>7
<1>13. \A p \in Peers : Later(received'[p], since')
  BY <1>2 DEF Session
<1>14. running' => \A p \in Peers : received'[p] # << >> => peer'[p].st = "streaming" /\ sink'.on
  BY <1>2, <1>7 DEF Session
<1> QED
  BY <1>2, <1>7, <1>10, <1>11, <1>12, <1>13, <1>14 DEF Session

\* The sink is turned on with empty queues, for subscribers that have nothing yet,
\* and turned off when nobody is there who was sent anything.
LEMMA TickSession ==
  ASSUME IpcInv, Session, Tick
  PROVE  Session'
<1>1. Types /\ SubscribersKept /\ SinkQuiet /\ logged \in Nat
  BY DEF IpcInv, Types
<1>2. /\ handler = None /\ running /\ running' = running /\ peer' = peer
      /\ logged' = logged /\ received' = received
      /\ since' = (IF sink'.on /\ ~sink.on THEN logged ELSE since)
  BY DEF Tick, server
<1>3. sink.on \in BOOLEAN /\ sink.queue \in [1..2 -> Seq(Nat)]
  BY <1>1, SinkIs
<1>4. CASE subscribers = << >> /\ prevEmpty' = TRUE /\ sink' = TurnedOff(sink) /\ handler' = handler
  <2>1. ~sink'.on /\ sink'.queue[1] = << >> /\ sink'.queue[2] = << >> /\ since' = since
    BY <1>1, <1>2, <1>4 DEF TurnedOff, Types
  <2>2. \A p \in Peers : received[p] = << >>
    <3>1. ToSet(subscribers) = {}
      BY <1>4, EmptyToSet
    <3> QED
      BY <1>1, <1>2, <3>1 DEF SubscribersKept, Session
  <2>3. \A k \in 1..2 : Later(sink'.queue[k], since')
    <3>1. \A k \in 1..2 : sink'.queue[k] = << >>
      BY <2>1
    <3> QED
      BY <3>1 DEF Later
  <2>4. \A p \in Peers : Later(received'[p], since')
    BY <1>2, <2>1 DEF Session
  <2>5. ~InRound'
    BY <1>2, <1>4 DEF InRound
  <2>6. since' \in Nat /\ since' <= logged'
    BY <1>2, <2>1 DEF Session
  <2>7. running' => \A p \in Peers : received'[p] # << >> => peer'[p].st = "streaming" /\ sink'.on
    BY <1>2, <2>2
  <2> QED
    BY <1>4, <2>1, <2>3, <2>4, <2>5, <2>6, <2>7 DEF Session
<1>5. CASE subscribers # << >> /\ prevEmpty' = FALSE /\ sink' = Swapped([sink EXCEPT !.on = TRUE])
  <2>1. sink'.on = TRUE /\ sink'.queue = sink.queue
    BY <1>1, <1>5 DEF Swapped, Types
  <2>2. CASE sink.on
    <3>1. since' = since
      BY <1>2, <2>2
    <3>2. \A k \in 1..2 : Later(sink'.queue[k], since')
      BY <2>1, <3>1 DEF Session
    <3>3. \A p \in Peers : Later(received'[p], since')
      BY <1>2, <3>1 DEF Session
    <3>4. running' => \A p \in Peers : received'[p] # << >> => peer'[p].st = "streaming" /\ sink'.on
      BY <1>2, <2>1 DEF Session
    <3>5. since' \in Nat /\ since' <= logged'
      BY <1>2, <3>1 DEF Session
    <3> QED
      BY <1>5, <2>1, <3>2, <3>3, <3>4, <3>5 DEF Session
  <2>3. CASE ~sink.on
    <3>1. since' = logged /\ since' \in Nat /\ since' <= logged'
      BY <1>1, <1>2, <2>1, <2>3
    <3>2. sink.queue = << << >>, << >> >>
      BY <1>1, <2>3 DEF Session, SinkQuiet
    <3>3. \A k \in 1..2 : sink'.queue[k] = << >>
      BY <2>1, <3>2
    <3>4. \A k \in 1..2 : Later(sink'.queue[k], since')
      BY <3>3 DEF Later
    <3>5. \A p \in Peers : received'[p] = << >>
      BY <1>2, <2>3 DEF Session
    <3>6. \A p \in Peers : Later(received'[p], since')
      BY <3>5 DEF Later
    <3>7. running' => \A p \in Peers : received'[p] # << >> => peer'[p].st = "streaming" /\ sink'.on
      BY <3>5
    <3> QED
      BY <1>5, <2>1, <3>1, <3>4, <3>6, <3>7 DEF Session
  <2> QED
    BY <2>2, <2>3
<1> QED
  BY <1>4, <1>5 DEF Tick

LEMMA SendLogSession ==
  ASSUME IpcInv, Session, SendLog
  PROVE  Session'
<1> DEFINE p == subscribers[handler.at]
           m == Sending[handler.next]
<1>1. Types /\ Places /\ Rounds /\ InRound
  BY SentOrder DEF IpcInv
<1>2. /\ running' = running /\ logged' = logged /\ since' = since /\ prevEmpty' = prevEmpty
  BY DEF SendLog, server
<1>3. /\ p \in Peers /\ Sending \in Seq(Nat) /\ handler.next \in 1..Len(Sending) /\ handler.front \in 1..2
      /\ p \in ToSet(subscribers) /\ received[p] \in Seq(Nat) /\ m \in Nat
  <2>1. /\ handler.at \in 1..Len(subscribers) /\ subscribers \in Seq(Peers)
        /\ Sending \in Seq(Nat) /\ handler.next \in 1..Len(Sending) /\ handler.front \in 1..2
    BY <1>1, RoundTypes DEF Types
  <2>2. p \in Peers /\ received[p] \in Seq(Nat) /\ m \in Nat
    BY <1>1, <2>1, RoundTypes
  <2>3. p \in ToSet(subscribers)
    BY <2>1, ToSetOf
  <2> QED
    BY <2>1, <2>2, <2>3
<1>4. m > since
  BY <1>3 DEF Session, Later, Sending
<1>5. /\ \A q \in Peers : q # p => received'[q] = received[q]
      /\ \/ received' = received
         \/ peer[p].st # "left" /\ received'[p] = Append(received[p], m)
  BY SentOrder
<1> HIDE DEF m
<1>6. \A q \in Peers : Later(received'[q], since')
  <2>1. CASE received' = received
    BY <1>2, <2>1 DEF Session
  <2>2. CASE received'[p] = Append(received[p], m)
    <3>1. Later(received[p], since)
      BY <1>3 DEF Session
    <3>2. /\ Len(received'[p]) = Len(received[p]) + 1 /\ received'[p][Len(received[p]) + 1] = m
          /\ \A k \in 1..Len(received[p]) : received'[p][k] = received[p][k]
      BY <1>3, <2>2, AppendProperties
    <3>3. Later(received'[p], since')
      <4> SUFFICES ASSUME NEW k \in 1..Len(received'[p]) PROVE received'[p][k] > since
        BY <1>2 DEF Later
      <4>1. Len(received[p]) \in Nat
        BY <1>3
      <4>2. k = Len(received[p]) + 1 \/ k \in 1..Len(received[p])
        BY <3>2, <4>1
      <4>3. CASE k = Len(received[p]) + 1
        BY <1>4, <3>2, <4>3
      <4>4. CASE k \in 1..Len(received[p])
        BY <3>1, <3>2, <4>4 DEF Later
      <4> QED
        BY <4>2, <4>3, <4>4
    <3> QED
      BY <1>2, <1>5, <3>3 DEF Session
  <2> QED
    BY <1>5, <2>1, <2>2
<1>7. peer[p].st \in {"streaming", "left"} /\ sink.on
  BY <1>1, <1>3 DEF Places, Session
<1>8. running => \A q \in Peers : received'[q] # << >> => peer[q].st = "streaming" /\ sink.on
  BY <1>3, <1>5, <1>7 DEF Session
<1>9. running => peer' = peer
  BY DEF SendLog, EndRound
<1>10. sink'.on = sink.on /\ \A k \in 1..2 : sink'.queue[k] = sink.queue[k] \/ sink'.queue[k] = << >>
  <2>1. sink' = sink \/ sink' = Cleared(handler.front)
    BY DEF SendLog, EndRound
  <2>2. sink.queue \in [1..2 -> Seq(Nat)]
    BY <1>1, SinkIs
  <2> QED
    BY <1>1, <1>3, <2>1, <2>2 DEF Cleared, Types
<1>11. \A k \in 1..2 : Later(sink'.queue[k], since')
  BY <1>2, <1>10 DEF Session, Later
<1>12. running' => \A q \in Peers : received'[q] # << >> => peer'[q].st = "streaming" /\ sink'.on
  BY <1>2, <1>8, <1>9, <1>10
<1> QED
  BY <1>2, <1>6, <1>7, <1>10, <1>11, <1>12 DEF Session

LEMMA SessionInit == Init => Session
<1> SUFFICES ASSUME Init PROVE Session
  OBVIOUS
<1>1. sink.on = FALSE /\ sink.queue[1] = << >> /\ sink.queue[2] = << >>
  BY DEF Init
<1>2. \A k \in 1..2 : Later(sink.queue[k], since)
  <2>1. \A k \in 1..2 : sink.queue[k] = << >>
    BY <1>1
  <2> QED
    BY <2>1 DEF Later
<1>3. \A p \in Peers : received[p] = << >>
  BY DEF Init
<1>4. \A p \in Peers : Later(received[p], since)
  BY <1>3 DEF Later
<1>5. ~InRound /\ since = 0 /\ logged = 0 /\ prevEmpty = TRUE
  BY DEF Init, InRound
<1> QED
  BY <1>1, <1>2, <1>3, <1>4, <1>5 DEF Session

LEMMA SessionStep == IpcInv /\ Session /\ [Next]_vars => Session'
<1> SUFFICES ASSUME IpcInv, Session, [Next]_vars PROVE Session'
  OBVIOUS
<1>0. Types
  BY DEF IpcInv
<1>1. CASE UNCHANGED vars
  <2>1. /\ UNCHANGED <<prevEmpty, sink, logged, since>> /\ handler' = handler /\ running' = running
        /\ received' = received /\ peer' = peer
    BY <1>1 DEF vars, server, logcat
  <2> QED
    BY <1>0, <2>1, SessionKept
<1>2. CASE \E p \in Peers : Connect(p) \/ (\E msg \in Messages[p] : Ask(p, msg)) \/ Leave(p)
  BY <1>0, <1>2, PeerSession
<1>3. CASE Accept \/ Receive \/ Operate \/ SetMaxPages \/ Reply
  BY <1>3, ServerSession
<1>4. CASE HandlerEnds \/ Stop
  <2>1. /\ UNCHANGED <<prevEmpty, sink, logged, since>> /\ handler' \in {handler, None, Ended}
        /\ ~running' /\ received' = received
    BY <1>4 DEF HandlerEnds, CloseAll, Stop, server, logcat
  <2> QED
    BY <1>0, <2>1, SessionKept
<1>5. CASE Log \/ Tick \/ SendLog
  BY <1>5, LogSession, TickSession, SendLogSession
<1> QED
  BY <1>1, <1>2, <1>3, <1>4, <1>5 DEF Next

\* Nobody is sent a message from before the sink was last turned on: what was logged
\* for subscribers that have gone is dropped with them (logcat_handler), for any
\* number of peers, sessions and messages.
THEOREM NoOldLogsAreSent == Spec => []NoOldLogs
<1>1. Init => IpcInv /\ Session
  BY IpcInit, SessionInit
<1>2. IpcInv /\ Session /\ [Next]_vars => (IpcInv /\ Session)'
  BY IpcStep, SessionStep
<1>3. Session => NoOldLogs
  BY DEF Session, Later, NoOldLogs
<1> QED
  BY <1>1, <1>2, <1>3, PTL DEF Spec

-----------------------------------------------------------------------------
(* Sizes of the cache.  Powers of two divide each other, so that what            *)
(* std::bit_ceil makes of a quotient is the quotient, or more than needed.       *)

Highest == SizeBits - 1
Biggest == PowerOfTwo[Highest]

LEMMA PowerExists ==
  ASSUME NEW n \in Nat
  PROVE  \E f : f = [k \in 0..n |-> IF k = 0 THEN 1 ELSE 2 * f[k - 1]]
<1> DEFINE Twice(f, k) == IF k = 0 THEN 1 ELSE 2 * f[k - 1]
           Part(f, m) == f = [k \in 0..m |-> Twice(f, k)]
           T == {m \in Nat : \E f : Part(f, m)}
<1>1. 0 \in T
  <2> DEFINE f == [k \in 0..0 |-> 1]
  <2>1. Part(f, 0)
    OBVIOUS
  <2> QED
    BY <2>1
<1>2. ASSUME NEW m \in Nat, m \in T
      PROVE  m + 1 \in T
  <2>1. PICK f : Part(f, m)
    BY <1>2
  <2> DEFINE g == [k \in 0..m + 1 |-> IF k = m + 1 THEN Twice(f, m + 1) ELSE f[k]]
  <2>2. g[m + 1] = Twice(f, m + 1) /\ \A k \in 0..m : g[k] = f[k]
    OBVIOUS
  <2>3. g = [k \in 0..m + 1 |-> g[k]]
    OBVIOUS
  <2> HIDE DEF g
  <2>4. ASSUME NEW k \in 0..m + 1
        PROVE  g[k] = Twice(g, k)
    <3>1. k # 0 => k - 1 \in 0..m
      OBVIOUS
    <3>2. Twice(g, k) = Twice(f, k)
      BY <2>2, <3>1
    <3>3. k \in 0..m => f[k] = Twice(f, k)
      BY <2>1
    <3> QED
      BY <2>2, <3>2, <3>3
  <2>5. Part(g, m + 1)
    BY <2>3, <2>4
  <2> HIDE DEF Part
  <2> QED
    BY <2>5
<1>3. n \in T
  <2> HIDE DEF T
  <2> QED
    BY <1>1, <1>2, SetInduction
<1> QED
  BY <1>3

LEMMA PowerIs ==
  /\ Highest \in Nat /\ PowerOfTwo[0] = 1
  /\ \A k \in 0..Highest : k # 0 => PowerOfTwo[k] = 2 * PowerOfTwo[k - 1]
<1> DEFINE g == CHOOSE f : f = [k \in 0..Highest |-> IF k = 0 THEN 1 ELSE 2 * f[k - 1]]
<1>1. Highest \in Nat
  BY IpcAssumption DEF Highest
<1>2. g = [k \in 0..Highest |-> IF k = 0 THEN 1 ELSE 2 * g[k - 1]]
  BY <1>1, PowerExists
<1>3. PowerOfTwo = g
  BY DEF PowerOfTwo, Highest
<1> HIDE DEF g
<1> QED
  BY <1>1, <1>2, <1>3

LEMMA PowerPositive == \A k \in 0..Highest : PowerOfTwo[k] \in Nat /\ PowerOfTwo[k] >= 1
<1> DEFINE T == {k \in Nat : k <= Highest => PowerOfTwo[k] \in Nat /\ PowerOfTwo[k] >= 1}
<1>1. 0 \in T
  BY PowerIs
<1>2. ASSUME NEW k \in Nat, k \in T
      PROVE  k + 1 \in T
  <2> SUFFICES ASSUME k + 1 <= Highest
               PROVE  PowerOfTwo[k + 1] \in Nat /\ PowerOfTwo[k + 1] >= 1
    OBVIOUS
  <2>1. PowerOfTwo[k] \in Nat /\ PowerOfTwo[k] >= 1
    BY <1>2, PowerIs
  <2>2. k + 1 \in 0..Highest /\ k + 1 # 0 /\ (k + 1) - 1 = k
    BY PowerIs
  <2>3. PowerOfTwo[k + 1] = 2 * PowerOfTwo[k]
    BY <2>2, PowerIs
  <2> QED
    BY <2>1, <2>3
<1>3. Nat \subseteq T
  <2> HIDE DEF T
  <2> QED
    BY <1>1, <1>2, SetInduction
<1> QED
  BY <1>3, PowerIs

LEMMA PowerSum ==
  ASSUME NEW i \in Nat, NEW d \in Nat, i + d <= Highest
  PROVE  PowerOfTwo[i + d] = PowerOfTwo[i] * PowerOfTwo[d]
<1> DEFINE T == {e \in Nat : i + e <= Highest => PowerOfTwo[i + e] = PowerOfTwo[i] * PowerOfTwo[e]}
<1>0. Highest \in Nat
  BY PowerIs
<1>1. 0 \in T
  <2>1. i + 0 = i /\ (i <= Highest => PowerOfTwo[i] \in Nat)
    BY <1>0, PowerPositive
  <2>2. PowerOfTwo[0] = 1
    BY PowerIs
  <2> QED
    BY <2>1, <2>2
<1>2. ASSUME NEW e \in Nat, e \in T
      PROVE  e + 1 \in T
  <2> SUFFICES ASSUME i + (e + 1) <= Highest
               PROVE  PowerOfTwo[i + (e + 1)] = PowerOfTwo[i] * PowerOfTwo[e + 1]
    OBVIOUS
  <2>1. /\ i \in 0..Highest /\ e \in 0..Highest /\ e + 1 \in 0..Highest /\ e + 1 # 0
        /\ (e + 1) - 1 = e /\ i + (e + 1) \in 0..Highest /\ i + (e + 1) # 0
        /\ (i + (e + 1)) - 1 = i + e /\ i + e <= Highest
    BY <1>0
  <2>2. PowerOfTwo[i + e] = PowerOfTwo[i] * PowerOfTwo[e]
    BY <1>2, <2>1
  <2>3. PowerOfTwo[e + 1] = 2 * PowerOfTwo[e] /\ PowerOfTwo[i + (e + 1)] = 2 * PowerOfTwo[i + e]
    BY <2>1, PowerIs
  <2>4. PowerOfTwo[i] \in Nat /\ PowerOfTwo[e] \in Nat
    BY <2>1, PowerPositive
  <2>5. \A a, b \in Nat : 2 * (a * b) = a * (2 * b)
    OBVIOUS
  <2> QED
    BY <2>2, <2>3, <2>4, <2>5
<1>3. Nat \subseteq T
  <2> HIDE DEF T
  <2> QED
    BY <1>1, <1>2, SetInduction
<1> QED
  BY <1>3

LEMMA ProductGrows ==
  /\ \A a, b, c \in Nat : b <= c => a * b <= a * c
  /\ \A a, b \in Nat : b >= 1 => a <= a * b
  /\ \A a, b \in Nat : a * b \in Nat /\ a * b = b * a
OBVIOUS

LEMMA PowersArePositive == \A a \in PowersOfTwo : a \in Nat /\ a >= 1
BY PowerPositive DEF PowersOfTwo, Highest

LEMMA PowersDivide ==
  ASSUME NEW a \in PowersOfTwo, NEW b \in PowersOfTwo, a <= b
  PROVE  \E c \in PowersOfTwo : b = a * c
<1>1. PICK i \in 0..Highest : a = PowerOfTwo[i]
  BY DEF PowersOfTwo, Highest
<1>2. PICK j \in 0..Highest : b = PowerOfTwo[j]
  BY DEF PowersOfTwo, Highest
<1>3. Highest \in Nat /\ \A k \in 0..Highest : PowerOfTwo[k] \in PowersOfTwo
  BY PowerIs DEF PowersOfTwo, Highest
<1>4. CASE i <= j
  <2>1. j - i \in 0..Highest /\ i + (j - i) = j /\ j - i \in Nat /\ i \in Nat /\ i + (j - i) <= Highest
    BY <1>3, <1>4
  <2>2. PowerOfTwo[i + (j - i)] = PowerOfTwo[i] * PowerOfTwo[j - i]
    BY <2>1, PowerSum
  <2> QED
    BY <1>1, <1>2, <1>3, <2>1, <2>2
<1>5. CASE j < i
  <2>1. i - j \in 0..Highest /\ j + (i - j) = i /\ i - j \in Nat /\ j \in Nat /\ j + (i - j) <= Highest
    BY <1>3, <1>5
  <2>2. a = b * PowerOfTwo[i - j]
    BY <1>1, <1>2, <2>1, PowerSum
  <2>3. PowerOfTwo[i - j] \in Nat /\ PowerOfTwo[i - j] >= 1 /\ a \in Nat /\ b \in Nat
    BY <2>1, PowerPositive, PowersArePositive
  <2>4. b <= a
    BY <2>2, <2>3, ProductGrows
  <2>5. 0 \in 0..Highest /\ b = a * PowerOfTwo[0]
    BY <2>3, <2>4, <1>3, PowerIs
  <2> QED
    BY <1>3, <2>5
<1> QED
  BY <1>4, <1>5

LEMMA BiggestIs == Biggest \in PowersOfTwo /\ 1 \in PowersOfTwo /\ \A a \in PowersOfTwo : a <= Biggest
<1>1. Highest \in Nat /\ Highest \in 0..Highest /\ 0 \in 0..Highest
  BY PowerIs
<1>2. Biggest \in PowersOfTwo /\ 1 \in PowersOfTwo
  BY <1>1, PowerIs DEF Biggest, PowersOfTwo, Highest
<1>3. ASSUME NEW a \in PowersOfTwo
      PROVE  a <= Biggest
  <2>1. PICK i \in 0..Highest : a = PowerOfTwo[i]
    BY DEF PowersOfTwo, Highest
  <2>2. Highest - i \in 0..Highest /\ i + (Highest - i) = Highest /\ Highest - i \in Nat /\ i \in Nat
    BY <1>1
  <2>3. Biggest = a * PowerOfTwo[Highest - i]
    BY <1>1, <2>1, <2>2, PowerSum DEF Biggest
  <2>4. a \in Nat /\ PowerOfTwo[Highest - i] \in Nat /\ PowerOfTwo[Highest - i] >= 1
    BY <2>2, PowersArePositive, PowerPositive
  <2> QED
    BY <2>3, <2>4, ProductGrows
<1> QED
  BY <1>2, <1>3

LEMMA LeastIs ==
  ASSUME NEW S, S \subseteq Nat, S # {}
  PROVE  Least(S) \in S /\ \A m \in S : Least(S) <= m
<1>1. PICK x \in S : \A y \in S : ~(<<y, x>> \in OpToRel(<, Nat))
  BY NatLessThanWellFounded, WFMin
<1>2. ASSUME NEW m \in S
      PROVE  x <= m
  <2>1. m \in Nat /\ x \in Nat
    OBVIOUS
  <2>2. m < x => <<m, x>> \in OpToRel(<, Nat)
    BY <2>1 DEF OpToRel
  <2>3. ~(m < x)
    BY <1>1, <2>2
  <2> QED
    BY <2>1, <2>3
<1>3. \E n \in S : \A m \in S : n <= m
  BY <1>2
<1> QED
  BY <1>3 DEF Least

\* std::bit_ceil, for what has a power of two above it.
LEMMA BitCeilIs ==
  ASSUME NEW n \in Nat, n <= Biggest
  PROVE  /\ BitCeil(n) \in PowersOfTwo /\ BitCeil(n) >= n
         /\ \A a \in PowersOfTwo : a >= n => BitCeil(n) <= a
<1> DEFINE S == {k \in PowersOfTwo : k >= n}
<1>1. S \subseteq Nat /\ S # {}
  BY PowersArePositive, BiggestIs
<1>2. BitCeil(n) = Least(S)
  BY DEF BitCeil
<1>3. Least(S) \in S /\ \A m \in S : Least(S) <= m
  <2> HIDE DEF S
  <2> QED
    BY <1>1, LeastIs
<1> QED
  BY <1>2, <1>3

LEMMA Quotient ==
  ASSUME NEW n \in Nat, NEW d \in Nat, d >= 1
  PROVE  /\ n \div d \in Nat /\ d * (n \div d) <= n /\ n < d * (n \div d) + d
OBVIOUS

LEMMA QuotientBounds ==
  ASSUME NEW n \in Nat, NEW d \in Nat, d >= 1, NEW c \in Nat
  PROVE  /\ n = d * c => n \div d = c
         /\ n <= d * c => n \div d <= c
         /\ n \div d <= n
<1> DEFINE q == n \div d
<1>1. q \in Nat /\ d * q <= n /\ n < d * q + d
  BY Quotient
<1> HIDE DEF q
<1>2. q <= d * q
  BY <1>1, ProductGrows
<1>3. q >= c + 1 => d * (c + 1) <= d * q
  BY <1>1, ProductGrows
<1>4. c >= q + 1 => d * (q + 1) <= d * c
  BY <1>1, ProductGrows
<1>5. d * (c + 1) = d * c + d /\ d * (q + 1) = d * q + d /\ d * c \in Nat /\ d * q \in Nat
  BY <1>1
<1>6. n <= d * c => q <= c
  BY <1>1, <1>3, <1>5
<1>7. n = d * c => q = c
  BY <1>1, <1>4, <1>5, <1>6
<1>8. q <= n
  BY <1>1, <1>2, <1>5
<1> QED
  BY <1>6, <1>7, <1>8 DEF q


\* SetPageSize: as many pages of the new size as hold what the old ones held.
LEMMA NewPagesHold ==
  ASSUME NEW page \in PowersOfTwo, NEW max \in PowersOfTwo, NEW size \in PowersOfTwo,
         max * page <= Biggest
  PROVE  LET n == BitCeil((max * page) \div size) IN
         n \in PowersOfTwo /\ size * n >= max * page
<1> DEFINE total == max * page
           q == total \div size
           n == BitCeil(q)
<1>1. /\ page \in Nat /\ page >= 1 /\ max \in Nat /\ max >= 1 /\ size \in Nat /\ size >= 1
      /\ total \in Nat /\ Biggest \in Nat
  BY PowersArePositive, BiggestIs, ProductGrows
<1> HIDE DEF total
<1>2. q \in Nat /\ q <= total
  BY <1>1, Quotient, QuotientBounds
<1>3. q <= Biggest
  BY <1>1, <1>2 DEF total
<1> HIDE DEF q
<1>4. n \in PowersOfTwo /\ n >= q /\ n \in Nat /\ n >= 1
  BY <1>2, <1>3, BitCeilIs, PowersArePositive
<1> HIDE DEF n
<1>5. CASE \E d \in Nat : total = size * d
  <2>1. PICK d \in Nat : total = size * d
    BY <1>5
  <2>2. q = d
    BY <1>1, <2>1, QuotientBounds DEF q
  <2> QED
    BY <1>1, <1>4, <2>1, <2>2, ProductGrows DEF n, q, total
<1>6. CASE total <= size
  <2>1. size <= size * n
    BY <1>1, <1>4, ProductGrows
  <2>2. size * n \in Nat
    BY <1>1, <1>4, ProductGrows
  <2> QED
    BY <1>1, <1>4, <1>6, <2>1, <2>2 DEF n, q, total
<1>7. CASE size <= page
  <2>1. PICK c \in PowersOfTwo : page = size * c
    BY <1>7, PowersDivide
  <2>2. c \in Nat /\ c * max \in Nat
    BY <1>1, PowersArePositive, ProductGrows
  <2>3. max * (size * c) = size * (c * max)
    BY <1>1, <2>2
  <2> QED
    BY <1>5, <2>1, <2>2, <2>3 DEF total
<1>8. CASE page < size
  <2>1. PICK c \in PowersOfTwo : size = page * c
    BY <1>1, <1>8, PowersDivide
  <2>2. c \in Nat
    BY PowersArePositive
  <2>3. CASE c <= max
    <3>1. PICK d \in PowersOfTwo : max = c * d
      BY <2>3, PowersDivide
    <3>2. d \in Nat
      BY PowersArePositive
    <3>3. (c * d) * page = (page * c) * d
      BY <1>1, <2>2, <3>2
    <3> QED
      BY <1>5, <2>1, <3>1, <3>2, <3>3 DEF total
  <2>4. CASE max < c
    <3>1. page * max <= page * c
      BY <1>1, <2>2, <2>4, ProductGrows
    <3> QED
      BY <1>1, <1>6, <2>1, <3>1, ProductGrows DEF total
  <2> QED
    BY <1>1, <2>2, <2>3, <2>4
<1> QED
  BY <1>1, <1>7, <1>8

\* Rounding a number of pages up stays within the largest power of two.
LEMMA RoundedFits ==
  ASSUME NEW total \in Nat, total <= Biggest, NEW size \in PowersOfTwo
  PROVE  LET n == BitCeil(total \div size) IN n \in PowersOfTwo /\ size * n <= Biggest
<1> DEFINE q == total \div size
           n == BitCeil(q)
<1>1. size \in Nat /\ size >= 1 /\ Biggest \in Nat /\ size <= Biggest
  BY PowersArePositive, BiggestIs
<1>2. PICK c \in PowersOfTwo : Biggest = size * c
  BY <1>1, BiggestIs, PowersDivide
<1>3. c \in Nat /\ c <= Biggest
  BY PowersArePositive, BiggestIs
<1>4. q \in Nat /\ q <= c
  BY <1>1, <1>2, <1>3, Quotient, QuotientBounds
<1> HIDE DEF q
<1>5. n \in PowersOfTwo /\ n <= c
  BY <1>1, <1>3, <1>4, BitCeilIs
<1> HIDE DEF n
<1>6. size * n <= size * c
  BY <1>1, <1>3, <1>5, PowersArePositive, ProductGrows
<1> QED
  BY <1>2, <1>5, <1>6 DEF n, q

-----------------------------------------------------------------------------
(* What CacheKept needs *)

\* No size that is asked for, and no smallest cache, is beyond the powers of two a
\* usize holds: std::bit_ceil is undefined for larger ones.
SizesFit ==
  /\ HighestPage * LowestPages <= Biggest
  /\ \A p \in Peers : \A msg \in Messages[p] :
       msg.op \in {"set_page_size", "set_cache_size"} => msg.value \in Nat /\ msg.value <= Biggest

Sized(c) == c \in Sizes /\ c.page <= HighestPage
Fitting(c) == Sized(c) /\ c.page * c.max <= Biggest

\* Between its two halves a resize has the sizes it started from, and a page limit
\* that may be too large for the new page size.
Resizing ==
  /\ At("receive") => serving.old = None
  /\ At("operate") => serving.old = None /\ peer[serving.peer].msg # None
  /\ At("resize") => Fitting(serving.old) /\ Sized(conf)
  /\ ~At("resize") => conf = None \/ Fitting(conf)
  /\ At("reply") /\ serving.old # None =>
       conf.page * conf.max >= serving.old.page * serving.old.max

LEMMA NewPageSizeIs ==
  ASSUME NEW size \in Nat, size <= Biggest
  PROVE  NewPageSize(size) \in PowersOfTwo /\ NewPageSize(size) <= HighestPage
<1> DEFINE b == Larger(BitCeil(size), LowestPage)
<1>1. b \in PowersOfTwo
  BY BitCeilIs, IpcAssumption DEF Larger
<1> HIDE DEF b
<1>2. /\ HighestPage \in PowersOfTwo /\ {HighestPage, b} \subseteq Nat /\ {HighestPage, b} # {}
  BY <1>1, IpcAssumption, PowersArePositive
<1>3. Least({HighestPage, b}) \in {HighestPage, b} /\ Least({HighestPage, b}) <= HighestPage
  BY <1>2, LeastIs
<1> QED
  BY <1>1, <1>2, <1>3 DEF NewPageSize, b

LEMMA NewMaxPagesIs ==
  ASSUME SizesFit, NEW old, Fitting(old), NEW size \in PowersOfTwo, size <= HighestPage
  PROVE  /\ NewMaxPages(old, size) \in PowersOfTwo
         /\ size * NewMaxPages(old, size) <= Biggest
         /\ size * NewMaxPages(old, size) >= old.page * old.max
<1> DEFINE n == BitCeil((old.max * old.page) \div size)
<1>1. old.page \in PowersOfTwo /\ old.max \in PowersOfTwo /\ old.page * old.max <= Biggest
  BY DEF Fitting, Sized, Sizes
<1>2. /\ old.page \in Nat /\ old.max \in Nat /\ size \in Nat /\ Biggest \in Nat
      /\ LowestPages \in PowersOfTwo /\ LowestPages \in Nat /\ HighestPage \in Nat
  BY <1>1, PowersArePositive, BiggestIs, IpcAssumption
<1>3. old.max * old.page \in Nat /\ old.max * old.page = old.page * old.max
  BY <1>2, ProductGrows
<1>4. n \in PowersOfTwo /\ size * n >= old.max * old.page
  BY <1>1, <1>3, NewPagesHold
<1>5. size * n <= Biggest
  BY <1>1, <1>3, RoundedFits
<1>6. NewMaxPages(old, size) = IF n < LowestPages THEN LowestPages ELSE n
  BY DEF NewMaxPages, Larger
<1> HIDE DEF n
<1>7. n \in Nat /\ size * n \in Nat /\ size * LowestPages \in Nat
  BY <1>2, <1>4, PowersArePositive, ProductGrows
<1>8. size * LowestPages <= Biggest
  <2>1. LowestPages * size <= LowestPages * HighestPage
    BY <1>2, ProductGrows
  <2>2. /\ LowestPages * size = size * LowestPages
        /\ LowestPages * HighestPage = HighestPage * LowestPages
        /\ LowestPages * HighestPage \in Nat
    BY <1>2, ProductGrows
  <2> QED
    BY <1>2, <1>7, <2>1, <2>2 DEF SizesFit
<1>9. n < LowestPages => size * n <= size * LowestPages
  BY <1>2, <1>7, ProductGrows
<1> QED
  BY <1>2, <1>3, <1>4, <1>5, <1>6, <1>7, <1>8, <1>9

LEMMA MaxPagesForIs ==
  ASSUME SizesFit, NEW total \in Nat, total <= Biggest, NEW size \in PowersOfTwo, size <= HighestPage
  PROVE  /\ MaxPagesFor(total, size) \in PowersOfTwo
         /\ size * MaxPagesFor(total, size) <= Biggest
<1> DEFINE n == BitCeil(total \div size)
<1>2. /\ size \in Nat /\ size >= 1 /\ Biggest \in Nat
      /\ LowestPages \in PowersOfTwo /\ LowestPages \in Nat /\ HighestPage \in Nat
  BY PowersArePositive, BiggestIs, IpcAssumption
<1>3. n \in PowersOfTwo /\ size * n <= Biggest
  BY RoundedFits
<1>4. Larger(size, 1) = size
  BY <1>2 DEF Larger
<1>5. MaxPagesFor(total, size) = IF n < LowestPages THEN LowestPages ELSE n
  BY <1>4 DEF MaxPagesFor, Larger
<1> HIDE DEF n
<1>6. size * LowestPages <= Biggest
  <2>1. LowestPages * size <= LowestPages * HighestPage
    BY <1>2, ProductGrows
  <2>2. /\ LowestPages * size = size * LowestPages
        /\ LowestPages * HighestPage = HighestPage * LowestPages
        /\ LowestPages * HighestPage \in Nat /\ LowestPages * size \in Nat
    BY <1>2, ProductGrows
  <2> QED
    BY <1>2, <2>1, <2>2 DEF SizesFit
<1> QED
  BY <1>2, <1>3, <1>5, <1>6

\* Whatever leaves the server alone takes no message from a peer.
LEMMA ResizingKept ==
  ASSUME Types, Resizing, serving' = serving, conf' = conf,
         \A p \in Peers : peer[p].msg # None => peer'[p].msg # None
  PROVE  Resizing'
<1>1. \A step : At(step)' <=> At(step)
  BY DEF At
<1>2. At("operate") => serving.peer \in Peers
  BY DEF At, Types, Serving
<1> QED
  BY <1>1, <1>2 DEF Resizing

LEMMA OthersStep ==
  ASSUME Types, Resizing,
         \/ UNCHANGED vars
         \/ \E p \in Peers : Connect(p) \/ (\E msg \in Messages[p] : Ask(p, msg)) \/ Leave(p)
         \/ Log \/ Tick \/ SendLog \/ HandlerEnds \/ Stop
  PROVE  Resizing'
<1>0. peer \in [Peers -> [st : PeerStates, msg : Msgs]]
  BY DEF Types
<1>1. CASE UNCHANGED vars
  BY <1>1, ResizingKept DEF vars, server
<1>2. ASSUME NEW p \in Peers, Connect(p) \/ Leave(p)
      PROVE  Resizing'
  <2>1. /\ serving' = serving /\ conf' = conf
        /\ \E st : peer' = [peer EXCEPT ![p].st = st]
    BY <1>2 DEF Connect, Leave, server
  <2>2. \A q \in Peers : peer'[q].msg = peer[q].msg
    BY <1>0, <2>1
  <2> QED
    BY <2>1, <2>2, ResizingKept
<1>3. ASSUME NEW p \in Peers, NEW msg \in Messages[p], Ask(p, msg)
      PROVE  Resizing'
  <2>1. /\ serving' = serving /\ conf' = conf /\ msg # None
        /\ peer' = [peer EXCEPT ![p] = [st |-> "asked", msg |-> msg]]
    BY <1>3, NoneAssumption DEF Ask, server
  <2>2. \A q \in Peers : peer'[q].msg = IF q = p THEN msg ELSE peer[q].msg
    BY <1>0, <2>1
  <2> QED
    BY <2>1, <2>2, ResizingKept
<1>4. CASE Log \/ Tick
  BY <1>4, ResizingKept DEF Log, Tick, server
<1>5. ASSUME NEW remaining, CloseAll(remaining)
      PROVE  \A q \in Peers : peer'[q].msg = peer[q].msg
  BY <1>0, <1>5 DEF CloseAll
<1>6. CASE SendLog
  <2>1. serving' = serving /\ conf' = conf
    BY <1>6 DEF SendLog, server
  <2>2. peer' = peer \/ \E remaining : CloseAll(remaining)
    BY <1>6 DEF SendLog, EndRound
  <2> QED
    BY <1>5, <2>1, <2>2, ResizingKept
<1>7. CASE HandlerEnds
  BY <1>5, <1>7, ResizingKept DEF HandlerEnds, server
<1>8. CASE Stop
  <2>1. serving' = serving /\ conf' = conf
    BY <1>8 DEF Stop
  <2>2. \A q \in Peers : peer'[q].msg = peer[q].msg
    BY <1>0, <1>8 DEF Stop
  <2> QED
    BY <2>1, <2>2, ResizingKept
<1> QED
  BY <1>1, <1>2, <1>3, <1>4, <1>6, <1>7, <1>8

LEMMA ServerStep ==
  ASSUME Types, Resizing, Accept \/ Receive \/ Reply
  PROVE  Resizing'
<1>1. ASSUME serving' \in {None, Ended}, conf' = conf, ~At("resize")
      PROVE  Resizing'
  <2>1. \A step : ~At(step)'
    BY <1>1 DEF At
  <2> QED
    BY <1>1, <2>1 DEF Resizing
<1>2. CASE Accept
  <2>1. serving = None /\ conf' = conf /\ ~At("resize")
    BY <1>2 DEF Accept, At
  <2>2. CASE serving' = Ended
    BY <1>1, <2>1, <2>2
  <2>3. CASE serving' = [peer |-> Head(backlog), step |-> "receive", old |-> None]
    <3>1. serving'.step = "receive" /\ serving'.old = None
      BY <2>3
    <3>2. ~At("operate")' /\ ~At("resize")' /\ ~At("reply")'
      BY <3>1 DEF At
    <3> QED
      BY <2>1, <3>1, <3>2 DEF Resizing
  <2> QED
    BY <1>2, <2>2, <2>3 DEF Accept
<1>3. CASE Receive
  <2>1. At("receive") /\ serving.old = None /\ ~At("resize") /\ conf' = conf
    BY <1>3 DEF Receive, At, Resizing
  <2>2. CASE serving' \in {None, Ended}
    BY <1>1, <2>1, <2>2
  <2>3. CASE /\ peer[serving.peer].msg # None /\ peer' = peer
             /\ \E step \in {"operate", "reply"} : serving' = [serving EXCEPT !.step = step]
    <3>1. PICK step \in {"operate", "reply"} : serving' = [serving EXCEPT !.step = step]
      BY <2>3
    <3>2. serving = [peer |-> serving.peer, step |-> serving.step, old |-> serving.old]
      BY <2>1 DEF Types, Serving, At
    <3>3. serving' = [peer |-> serving.peer, step |-> step, old |-> None]
      BY <2>1, <3>1, <3>2, ServingExcept
    <3>4. serving'.step = step /\ serving'.old = None /\ serving'.peer = serving.peer
      BY <3>3
    <3>5. ~At("receive")' /\ ~At("resize")'
      BY <3>4 DEF At
    <3> QED
      BY <2>1, <2>3, <3>4, <3>5 DEF Resizing
  <2>4. \/ serving' \in {None, Ended}
        \/ /\ peer[serving.peer].msg # None /\ peer' = peer
           /\ \E step \in {"operate", "reply"} : serving' = [serving EXCEPT !.step = step]
    BY <1>3, NextPeerIs DEF Receive, Subscribe
  <2> QED
    BY <2>2, <2>3, <2>4
<1>4. CASE Reply
  <2>1. At("reply") /\ ~At("resize") /\ conf' = conf /\ serving' \in {None, Ended}
    BY <1>4, NextPeerIs DEF Reply, At
  <2> QED
    BY <1>1, <2>1
<1> QED
  BY <1>2, <1>3, <1>4

LEMMA ConfExcept ==
  ASSUME NEW c \in Sizes, NEW n \in PowersOfTwo
  PROVE  /\ [c EXCEPT !.page = n] \in Sizes /\ [c EXCEPT !.page = n].page = n
         /\ [c EXCEPT !.max = n] \in Sizes /\ [c EXCEPT !.max = n].max = n
         /\ [c EXCEPT !.max = n].page = c.page
BY DEF Sizes

LEMMA ServingMoves ==
  ASSUME Types, Serving, NEW step, NEW old
  PROVE  /\ [serving EXCEPT !.step = step] = [peer |-> serving.peer, step |-> step, old |-> serving.old]
         /\ [serving EXCEPT !.step = step, !.old = old] = [peer |-> serving.peer, step |-> step, old |-> old]
<1> DEFINE p == serving.peer
           s == serving.step
           o == serving.old
<1>1. serving = [peer |-> p, step |-> s, old |-> o]
  BY DEF Types
<1> HIDE DEF p, s, o
<1>2. [serving EXCEPT !.step = step] = [peer |-> p, step |-> step, old |-> o]
  BY <1>1
<1>3. [serving EXCEPT !.step = step, !.old = old] = [[serving EXCEPT !.step = step] EXCEPT !.old = old]
  BY <1>1
<1>4. [[peer |-> p, step |-> step, old |-> o] EXCEPT !.old = old] = [peer |-> p, step |-> step, old |-> old]
  OBVIOUS
<1> QED
  BY <1>2, <1>3, <1>4 DEF p, s, o

LEMMA OperateSizes ==
  ASSUME SizesFit, Types, Resizing, Operate
  PROVE  Resizing'
<1> DEFINE p == serving.peer
           msg == peer[p].msg
<1>1. /\ At("operate") /\ serving.old = None /\ msg # None /\ ~At("resize")
      /\ (conf = None \/ Fitting(conf)) /\ peer' = peer
  BY DEF Operate, Resizing, At
<1>2. Serving /\ p \in Peers /\ \E q \in Peers : msg \in Messages[q]
  <2>1. Serving
    BY <1>1 DEF At, Serving
  <2>2. p \in Peers /\ peer \in [Peers -> [st : PeerStates, msg : Msgs]]
    BY <2>1 DEF Types
  <2>3. msg \in Msgs
    BY <2>2
  <2> QED
    BY <1>1, <2>1, <2>2, <2>3 DEF Msgs
<1> HIDE DEF p, msg
<1>3. msg.op \in {"set_page_size", "set_cache_size"} => msg.value \in Nat /\ msg.value <= Biggest
  BY <1>2 DEF SizesFit
<1>4. ASSUME serving' = [serving EXCEPT !.step = "reply"], conf' = None \/ Fitting(conf')
      PROVE  Resizing'
  <2>1. serving' = [peer |-> p, step |-> "reply", old |-> None]
    BY <1>1, <1>2, <1>4, ServingMoves DEF p
  <2>2. serving'.step = "reply" /\ serving'.old = None
    BY <2>1
  <2>3. ~At("receive")' /\ ~At("operate")' /\ ~At("resize")'
    BY <2>2 DEF At
  <2>4. (conf = None \/ Fitting(conf))'
    BY <1>4 DEF Fitting, Sized
  <2> QED
    BY <2>2, <2>3, <2>4 DEF Resizing
<1>5. CASE /\ conf # None /\ msg.op = "set_page_size"
           /\ serving' = [serving EXCEPT !.step = "resize", !.old = conf]
           /\ conf' = [conf EXCEPT !.page = NewPageSize(msg.value)]
  <2>1. serving' = [peer |-> p, step |-> "resize", old |-> conf]
    BY <1>2, <1>5, ServingMoves DEF p
  <2>2. serving'.step = "resize" /\ serving'.old = conf
    BY <2>1
  <2>3. ~At("receive")' /\ ~At("operate")' /\ ~At("reply")'
    BY <2>2 DEF At
  <2>4. Fitting(conf) /\ conf \in Sizes
    BY <1>1, <1>5 DEF Fitting, Sized
  <2>5. NewPageSize(msg.value) \in PowersOfTwo /\ NewPageSize(msg.value) <= HighestPage
    BY <1>3, <1>5, NewPageSizeIs
  <2>6. conf' \in Sizes /\ conf'.page <= HighestPage
    BY <1>5, <2>4, <2>5, ConfExcept
  <2>7. At("resize")'
    <3>1. serving' \in Served
      BY <1>2, <2>1, <2>4 DEF Served
    <3> QED
      BY <2>2, <3>1, NoneAssumption DEF At
  <2>8. Fitting(serving.old)'
    BY <2>2, <2>4 DEF Fitting, Sized
  <2>9. Sized(conf)'
    BY <2>6 DEF Sized
  <2> QED
    BY <2>3, <2>7, <2>8, <2>9 DEF Resizing
<1>6. CASE /\ conf # None /\ msg.op = "set_cache_size"
           /\ serving' = [serving EXCEPT !.step = "reply"]
           /\ conf' = [conf EXCEPT !.max = MaxPagesFor(msg.value, conf.page)]
  <2> DEFINE n == MaxPagesFor(msg.value, conf.page)
  <2>1. Fitting(conf) /\ conf \in Sizes /\ conf.page \in PowersOfTwo /\ conf.page <= HighestPage
    BY <1>1, <1>6 DEF Fitting, Sized, Sizes
  <2>2. n \in PowersOfTwo /\ conf.page * n <= Biggest
    BY <1>3, <1>6, <2>1, MaxPagesForIs
  <2> HIDE DEF n
  <2>3. conf' \in Sizes /\ conf'.page = conf.page /\ conf'.max = n
    BY <1>6, <2>1, <2>2, ConfExcept DEF n
  <2>4. Fitting(conf')
    BY <2>1, <2>2, <2>3 DEF Fitting, Sized
  <2> QED
    BY <1>4, <1>6, <2>4
<1>7. CASE serving' = [serving EXCEPT !.step = "reply"] /\ conf' = conf
  BY <1>1, <1>4, <1>7
<1>8. \/ /\ conf # None /\ msg.op = "set_page_size"
         /\ serving' = [serving EXCEPT !.step = "resize", !.old = conf]
         /\ conf' = [conf EXCEPT !.page = NewPageSize(msg.value)]
      \/ /\ conf # None /\ msg.op = "set_cache_size"
         /\ serving' = [serving EXCEPT !.step = "reply"]
         /\ conf' = [conf EXCEPT !.max = MaxPagesFor(msg.value, conf.page)]
      \/ serving' = [serving EXCEPT !.step = "reply"] /\ conf' = conf
  BY DEF Operate, Answer, msg, p
<1> QED
  BY <1>5, <1>6, <1>7, <1>8

LEMMA SetMaxPagesSizes ==
  ASSUME SizesFit, Types, Resizing, SetMaxPages
  PROVE  Resizing'
<1> DEFINE old == serving.old
           n == NewMaxPages(old, conf.page)
<1>1. /\ At("resize") /\ Fitting(old) /\ Sized(conf)
      /\ serving' = [serving EXCEPT !.step = "reply"] /\ conf' = [conf EXCEPT !.max = n]
  BY DEF SetMaxPages, Resizing
<1>2. Serving
  BY <1>1 DEF Serving, At
<1>3. serving' = [peer |-> serving.peer, step |-> "reply", old |-> old]
  BY <1>1, <1>2, ServingMoves
<1> HIDE DEF old
<1>4. serving'.step = "reply" /\ serving'.old = old
  BY <1>3
<1>5. ~At("receive")' /\ ~At("operate")' /\ ~At("resize")'
  BY <1>4 DEF At
<1>6. conf \in Sizes /\ conf.page \in PowersOfTwo /\ conf.page <= HighestPage
  BY <1>1 DEF Sized, Sizes
<1>7. n \in PowersOfTwo /\ conf.page * n <= Biggest /\ conf.page * n >= old.page * old.max
  BY <1>1, <1>6, NewMaxPagesIs
<1> HIDE DEF n
<1>8. conf' \in Sizes /\ conf'.page = conf.page /\ conf'.max = n
  BY <1>1, <1>6, <1>7, ConfExcept
<1>9. Fitting(conf)'
  BY <1>6, <1>7, <1>8 DEF Fitting, Sized
<1>10. conf'.page * conf'.max >= serving'.old.page * serving'.old.max
  BY <1>4, <1>7, <1>8
<1> QED
  BY <1>5, <1>9, <1>10 DEF Resizing

LEMMA ResizingInit == SizesFit /\ Init => Resizing
<1> SUFFICES ASSUME SizesFit, Init PROVE Resizing
  OBVIOUS
<1>1. \A step : ~At(step)
  BY DEF Init, At
<1>2. CASE conf = [page |-> LowestPage, max |-> LowestPages]
  <2>1. conf \in Sizes /\ conf.page = LowestPage /\ conf.max = LowestPages
    BY <1>2, IpcAssumption DEF Sizes
  <2>2. LowestPage \in Nat /\ HighestPage \in Nat /\ LowestPages \in Nat /\ Biggest \in Nat
    BY IpcAssumption, PowersArePositive, BiggestIs
  <2>3. LowestPages * LowestPage <= LowestPages * HighestPage
    BY <2>2, IpcAssumption, ProductGrows
  <2>4. /\ LowestPages * LowestPage = LowestPage * LowestPages
        /\ LowestPages * HighestPage = HighestPage * LowestPages
        /\ LowestPages * LowestPage \in Nat /\ LowestPages * HighestPage \in Nat
    BY <2>2, ProductGrows
  <2>5. LowestPage * LowestPages <= Biggest
    BY <2>2, <2>3, <2>4 DEF SizesFit
  <2> QED
    BY <1>1, <2>1, <2>5, IpcAssumption DEF Resizing, Fitting, Sized
<1>3. CASE conf = None
  BY <1>1, <1>3 DEF Resizing
<1> QED
  BY <1>2, <1>3 DEF Init

\* Whatever page sizes are asked for, in any order and with any changes of the cache's
\* size in between: when IpcHandler has answered a SetPageSize, the cache holds no less
\* than before, as long as every size has a power of two above it in a usize.
THEOREM ResizesKeepTheCache == SizesFit => (Spec => []CacheKept)
<1> SUFFICES ASSUME SizesFit PROVE Spec => []CacheKept
  OBVIOUS
<1>1. Init => Resizing
  BY ResizingInit
<1>2. IpcInv /\ Resizing /\ [Next]_vars => Resizing'
  <2> SUFFICES ASSUME Types, Resizing, [Next]_vars PROVE Resizing'
    BY DEF IpcInv
  <2> QED
    BY OthersStep, ServerStep, OperateSizes, SetMaxPagesSizes DEF Next
<1>3. Resizing => CacheKept
  BY DEF Resizing, CacheKept
<1> QED
  BY <1>1, <1>2, <1>3, IpcInvariant, PTL DEF Spec
=============================================================================
