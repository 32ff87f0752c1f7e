----------------------------- MODULE RpcStream -----------------------------
(***************************************************************************)
(* One direction of the connection between madbfs and madbfs-server: the   *)
(* handshake, then messages encoded into a byte stream by one end and      *)
(* decoded by the other (rpc.cpp).  The connection may break between any   *)
(* two bytes.                                                              *)
(***************************************************************************)
EXTENDS Rpc

CONSTANTS
  Names,      \* paths, names and byte strings: sequences of digits
  Ints,       \* values of integer fields
  Statuses,   \* error numbers of failed responses
  Greetings,  \* handshake strings a peer may send
  Hello,      \* our own
  MaxSent,    \* bound: messages per behaviour
  None

VARIABLES
  dir,       \* what travels in this direction: "request" or "response"
  greeting,  \* what the peer sends first
  stream,    \* bytes written and not read yet
  open,      \* the connection still delivers bytes
  phase,     \* receiving end: "handshake", "header", "payload" or "closed"
  header,    \* the header whose payload is being read
  sent,      \* messages written so far
  got        \* messages decoded so far

vars == <<dir, greeting, stream, open, phase, header, sent, got>>

ASSUME RpcAssumption ==
  /\ Radix \in Nat /\ Radix >= Len(Procedure)
  /\ MaxSent \in Nat
  /\ Hello \in Greetings
  /\ Statuses \subseteq 1..(Radix - 1)

-----------------------------------------------------------------------------
(* Messages of every procedure.  The fields of one message have different  *)
(* values, so that an exchange of two is noticed.                          *)

Sample(layout, s, v) ==
  LET value(k) ==
        CASE layout[k][2] = "path"  -> << k >> \o s
          [] layout[k][2] = "bytes" -> s
          [] layout[k][2] = "u8"     -> v % 3
          [] OTHER                  -> v + k
  IN  [f \in {layout[k][1] : k \in DOMAIN layout} |->
         value(CHOOSE k \in DOMAIN layout : layout[k][1] = f)]

Samples(layout) == {Sample(layout, s, v) : s \in Names, v \in Ints}

Listings ==
  LET entry(s, v) == Sample(<< <<"name", "path">> >> \o StatWritten, s, v) IN
  {[entries |-> << >>]} \cup
  {[entries |-> << entry(s, v), entry(<< >>, v + 1) >>] : s \in Names, v \in Ints}

Message(proc, status, msg) == [id |-> 0, proc |-> proc, status |-> status, msg |-> msg]

RequestMessages ==
  UNION {{Message(p, 0, m) : m \in Samples(RequestWritten[p])} : p \in ToSet(Procedure)}

ResponseMessages ==
  {Message("Listdir", 0, m) : m \in Listings}
  \cup UNION {{Message(p, 0, m) : m \in Samples(ResponseWritten[p])} : p \in ToSet(Procedure) \ {"Listdir"}}
  \cup {Message(p, s, None) : p \in ToSet(Procedure), s \in Statuses}

Messages == IF dir = "request" THEN RequestMessages ELSE ResponseMessages

Encode(m) ==
  IF dir = "request" THEN BuildRequest(m.id, m.proc, m.msg)
  ELSE BuildResponse(m.id, m.proc, m.status, m.msg)

-----------------------------------------------------------------------------
Init ==
  /\ dir \in {"request", "response"}
  /\ greeting \in Greetings
  /\ stream = WriteLv(greeting)
  /\ open = TRUE
  /\ phase = "handshake"
  /\ header = None
  /\ sent = << >> /\ got = << >>

\* send_request and send_response write the whole message.  The client may send as
\* soon as it has read the server's greeting, the server answers what it received.
Send(m) ==
  /\ open /\ phase # "closed" /\ Len(sent) < MaxSent
  /\ phase = "handshake" => dir = "request" /\ greeting = Hello
  /\ LET numbered == [m EXCEPT !.id = Len(sent) + 1] IN
     /\ sent' = Append(sent, numbered)
     /\ stream' = stream \o Encode(numbered)
  /\ UNCHANGED <<dir, greeting, open, phase, header, got>>

\* The connection breaks: only the bytes before some point still arrive.
Break ==
  /\ open
  /\ \E k \in 0..Len(stream) : stream' = SubSeq(stream, 1, k)
  /\ open' = FALSE
  /\ UNCHANGED <<dir, greeting, phase, header, sent, got>>

\* read_exact: n bytes are there, or the connection is at its end.
Readable(n) == Len(stream) >= n
AtEnd(n)    == ~open /\ Len(stream) < n
Drained(n)  == SubSeq(stream, n + 1, Len(stream))

Close == phase' = "closed" /\ header' = None

\* The greeting must be ours, of the same length and byte for byte.
Handshake ==
  LET len  == FromNetBytes(SubSeq(stream, 1, Width.u32))
      text == SubSeq(stream, Width.u32 + 1, Width.u32 + len)
  IN
  /\ phase = "handshake"
  /\ IF AtEnd(Width.u32) \/ (Readable(Width.u32) /\ AtEnd(Width.u32 + len))
     THEN Close /\ UNCHANGED stream
     ELSE /\ Readable(Width.u32) /\ Readable(Width.u32 + len)
          /\ stream' = Drained(Width.u32 + len)
          /\ IF text = Hello
             THEN phase' = "header" /\ UNCHANGED header
             ELSE Close
  /\ UNCHANGED <<dir, greeting, open, sent, got>>

HeaderLen == IF dir = "request" THEN RequestHeaderLen ELSE ResponseHeaderLen

\* receive_request_header, receive_response_header
ReadHeader(bytes) ==
  IF dir = "request" THEN ReadRequestHeader(bytes, None) ELSE ReadResponseHeader(bytes, None)

ReceiveHeader ==
  /\ phase = "header"
  /\ \/ AtEnd(HeaderLen) /\ Close /\ UNCHANGED stream
     \/ /\ Readable(HeaderLen)
        /\ stream' = Drained(HeaderLen)
        /\ \E h \in {ReadHeader(SubSeq(stream, 1, HeaderLen))} :
             IF h.proc = None THEN Close ELSE phase' = "payload" /\ header' = h
  /\ UNCHANGED <<dir, greeting, open, sent, got>>

Deliver(msg) ==
  /\ got' = Append(got, [id |-> header.id, proc |-> header.proc, status |-> header.status, msg |-> msg])
  /\ phase' = "header" /\ header' = None

\* The answer is of another procedure than the request the client keeps under its id.
Mismatched ==
  dir = "response" /\ \A k \in DOMAIN sent : sent[k].id = header.id => sent[k].proc # header.proc

\* receive_response of a failure, or of a mismatch: no payload is read.
ReceiveFailure ==
  /\ phase = "payload" /\ (header.status # 0 \/ Mismatched)
  /\ Deliver(None)
  /\ UNCHANGED <<dir, greeting, stream, open, sent>>

\* A Read asked for as much as its answer holds.
ReadPayload(payload) ==
  IF dir = "request" THEN ParseRequest(header.proc, payload, None)
  ELSE ParseResponse(header.proc, payload, header.size, None)

\* receive_request, receive_response: a payload that does not parse ends the
\* server's connection.
ReceivePayload ==
  /\ phase = "payload" /\ header.status = 0 /\ ~Mismatched
  /\ \/ AtEnd(header.size) /\ Close /\ UNCHANGED <<stream, got>>
     \/ /\ Readable(header.size)
        /\ stream' = Drained(header.size)
        /\ \E msg \in {ReadPayload(SubSeq(stream, 1, header.size))} :
             IF msg = None /\ dir = "request" THEN Close /\ UNCHANGED got ELSE Deliver(msg)
  /\ UNCHANGED <<dir, greeting, open, sent>>

Next ==
  \/ \E m \in Messages : Send(m)
  \/ Break
  \/ Handshake \/ ReceiveHeader \/ ReceiveFailure \/ ReceivePayload

Spec == Init /\ [][Next]_vars

-----------------------------------------------------------------------------
(* Properties *)

\* Whatever is sent and wherever the connection breaks, what the receiver
\* decodes are the first messages sent, in order, with their ids, statuses and
\* every field as it was: a broken message is never taken for another.
Faithful == IsPrefix(got, sent)

\* Between two messages the receiver stands on a frame boundary: the bytes it has
\* not read are the encodings of the messages it has not decoded.
Aligned ==
  phase = "header" /\ open =>
    stream = FlattenSeq([k \in 1..(Len(sent) - Len(got)) |-> Encode(sent[Len(got) + k])])

\* The receiver gives up only when the connection broke or the peer is not ours:
\* no message that was built is rejected, empty strings and empty payloads included.
NothingRejected == phase = "closed" => ~open \/ greeting # Hello
=============================================================================
