-------------------------------- MODULE Rpc --------------------------------
(***************************************************************************)
(* The encoding of requests and responses (madbfs-common/src/rpc.cpp) and  *)
(* the length-prefixed strings of the handshake (async.hpp), as operators. *)
(*                                                                         *)
(* A byte is a digit 0..Radix-1 (the code's radix is 256) and an integer of *)
(* w bytes is w digits, most significant first.  A message is a function   *)
(* from its struct's field names to values; a path and a byte string are   *)
(* sequences of digits.  What is written and what is read are two layouts, *)
(* taken from the two halves of the code.                                  *)
(***************************************************************************)
EXTENDS Integers, Sequences, SequencesExt

CONSTANT Radix

Procedure ==
  << "Stat", "Listdir", "Readlink", "Mknod", "Mkdir", "Unlink", "Rmdir", "Rename",
     "Truncate", "Utimens", "CopyFileRange", "Open", "Close", "Read", "Write", "Ping" >>

Code(proc) == (CHOOSE i \in DOMAIN Procedure : Procedure[i] = proc) - 1

\* Widths in bytes of the integers of the protocol.
Width == [u8 |-> 1, u32 |-> 4, i32 |-> 4, u64 |-> 8, i64 |-> 8]

-----------------------------------------------------------------------------
(* What build_request and build_response write *)

timespec(name) == << <<name \o "_sec", "i64">>, <<name \o "_nsec", "i64">> >>

\* The fields of a struct stat, in the order build_response writes them.
StatWritten ==
  << <<"size", "i64">>, <<"links", "u64">> >>
  \o timespec("mtime") \o timespec("atime") \o timespec("ctime")
  \o << <<"mode", "u32">>, <<"uid", "u32">>, <<"gid", "u32">> >>

RequestWritten ==
  [Stat          |-> << <<"path", "path">> >>,
   Listdir       |-> << <<"path", "path">> >>,
   Readlink      |-> << <<"path", "path">> >>,
   Mknod         |-> << <<"path", "path">>, <<"mode", "u32">>, <<"dev", "u64">> >>,
   Mkdir         |-> << <<"path", "path">>, <<"mode", "u32">> >>,
   Unlink        |-> << <<"path", "path">> >>,
   Rmdir         |-> << <<"path", "path">> >>,
   Rename        |-> << <<"from", "path">>, <<"to", "path">>, <<"flags", "u32">> >>,
   Truncate      |-> << <<"path", "path">>, <<"size", "i64">> >>,
   Utimens       |-> << <<"path", "path">> >> \o timespec("atime") \o timespec("mtime"),
   CopyFileRange |-> << <<"in_path", "path">>, <<"in_offset", "i64">>,
                        <<"out_path", "path">>, <<"out_offset", "i64">>, <<"size", "u64">> >>,
   Open          |-> << <<"path", "path">>, <<"mode", "u8">> >>,
   Close         |-> << <<"fd", "u64">> >>,
   Read          |-> << <<"fd", "u64">>, <<"offset", "i64">>, <<"size", "u64">> >>,
   Write         |-> << <<"fd", "u64">>, <<"offset", "i64">>, <<"in", "bytes">> >>,
   Ping          |-> << <<"num", "u64">> >>]

ResponseWritten ==
  [Stat |-> StatWritten, Listdir |-> << <<"entries", "entries">> >>,
   Readlink |-> << <<"target", "path">> >>,
   Mknod |-> << >>, Mkdir |-> << >>, Unlink |-> << >>, Rmdir |-> << >>, Rename |-> << >>,
   Truncate |-> << >>, Utimens |-> << >>, CopyFileRange |-> << <<"size", "u64">> >>,
   Open |-> << <<"fd", "u64">> >>, Close |-> << >>, Read |-> << <<"read", "bytes">> >>,
   Write |-> << <<"size", "u64">> >>, Ping |-> << <<"num", "u64">> >>]

\* to_net_bytes
NetBytes(v, w) == [k \in 1..w |-> (v \div Radix^(w - k)) % Radix]

WriteInt(kind, v) == NetBytes(v, Width[kind])

\* PayloadBuilder::write_bytes and write_path
WriteScalar(kind, v) ==
  CASE kind = "path"  -> WriteInt("u64", Len(v) + 1) \o v \o << 0 >>
    [] kind = "bytes" -> WriteInt("u64", Len(v)) \o v
    [] OTHER          -> WriteInt(kind, v)

WriteFields(layout, msg) ==
  FlattenSeq([k \in DOMAIN layout |-> WriteScalar(layout[k][2], msg[layout[k][1]])])

\* A directory listing is a count and, for each entry, its name and its stat.
WriteEntries(entries) ==
  WriteInt("u64", Len(entries)) \o
  FlattenSeq([k \in DOMAIN entries |->
    WriteFields(<< <<"name", "path">> >> \o StatWritten, entries[k])])

WritePayload(layout, msg) ==
  IF layout = ResponseWritten.Listdir THEN WriteEntries(msg.entries) ELSE WriteFields(layout, msg)

RequestHeaderLen  == Width.u32 + Width.u8 + Width.u64
ResponseHeaderLen == Width.u32 + Width.u8 + Width.i32 + Width.u64

\* Seeded fault: the size field counts the header too.
BuildRequestWholeSize(id, proc, msg) ==
  LET payload == WritePayload(RequestWritten[proc], msg) IN
  WriteInt("u32", id) \o WriteInt("u8", Code(proc)) \o WriteInt("u64", RequestHeaderLen + Len(payload)) \o payload

\* build_request, and build_response for a success and for a failure
BuildRequest(id, proc, msg) ==
  LET payload == WritePayload(RequestWritten[proc], msg) IN
  WriteInt("u32", id) \o WriteInt("u8", Code(proc)) \o WriteInt("u64", Len(payload)) \o payload

BuildResponse(id, proc, status, msg) ==
  LET payload == IF status = 0 THEN WritePayload(ResponseWritten[proc], msg) ELSE << >> IN
  WriteInt("u32", id) \o WriteInt("u8", Code(proc)) \o WriteInt("i32", status)
    \o WriteInt("u64", Len(payload)) \o payload

-----------------------------------------------------------------------------
(* What parse_request and parse_response read *)

StatRead ==
  << <<"size", "i64">>, <<"links", "u64">>,
     <<"mtime_sec", "i64">>, <<"mtime_nsec", "i64">>, <<"atime_sec", "i64">>, <<"atime_nsec", "i64">>,
     <<"ctime_sec", "i64">>, <<"ctime_nsec", "i64">>,
     <<"mode", "u32">>, <<"uid", "u32">>, <<"gid", "u32">> >>

\* Seeded fault: the two times of Utimens are read in the other order.
UtimensReadSwapped == << <<"path", "path">> >> \o timespec("mtime") \o timespec("atime")

UtimensRead == << <<"path", "path">> >> \o timespec("atime") \o timespec("mtime")

RequestRead ==
  [Stat |-> << <<"path", "path">> >>, Listdir |-> << <<"path", "path">> >>,
   Readlink |-> << <<"path", "path">> >>,
   Mknod |-> << <<"path", "path">>, <<"mode", "u32">>, <<"dev", "u64">> >>,
   Mkdir |-> << <<"path", "path">>, <<"mode", "u32">> >>,
   Unlink |-> << <<"path", "path">> >>, Rmdir |-> << <<"path", "path">> >>,
   Rename |-> << <<"from", "path">>, <<"to", "path">>, <<"flags", "u32">> >>,
   Truncate |-> << <<"path", "path">>, <<"size", "i64">> >>,
   Utimens |-> UtimensRead,
   CopyFileRange |-> << <<"in_path", "path">>, <<"in_offset", "i64">>,
                        <<"out_path", "path">>, <<"out_offset", "i64">>, <<"size", "u64">> >>,
   Open |-> << <<"path", "path">>, <<"mode", "u8">> >>, Close |-> << <<"fd", "u64">> >>,
   Read |-> << <<"fd", "u64">>, <<"offset", "i64">>, <<"size", "u64">> >>,
   Write |-> << <<"fd", "u64">>, <<"offset", "i64">>, <<"in", "bytes">> >>,
   Ping |-> << <<"num", "u64">> >>]

ResponseRead ==
  [Stat |-> StatRead, Listdir |-> << <<"entries", "entries">> >>,
   Readlink |-> << <<"target", "path">> >>,
   Mknod |-> << >>, Mkdir |-> << >>, Unlink |-> << >>, Rmdir |-> << >>, Rename |-> << >>,
   Truncate |-> << >>, Utimens |-> << >>, CopyFileRange |-> << <<"size", "u64">> >>,
   Open |-> << <<"fd", "u64">> >>, Close |-> << >>, Read |-> << <<"read", "bytes">> >>,
   Write |-> << <<"size", "u64">> >>, Ping |-> << <<"num", "u64">> >>]

\* from_net_bytes
FromNetBytes(digits) ==
  LET value[k \in 0..Len(digits)] == IF k = 0 THEN 0 ELSE value[k - 1] * Radix + digits[k]
  IN  value[Len(digits)]

\* A PayloadReader: the buffer, m_index, and whether every read so far succeeded.
Reader(buf)  == [buf |-> buf, at |-> 0, ok |-> TRUE, val |-> 0]
Failed(r)    == [r EXCEPT !.ok = FALSE]
Take(r, n)   == SubSeq(r.buf, r.at + 1, r.at + n)

\* Seeded fault: what ends with the buffer is rejected.
FitsStrict(r, n) == r.at + n < Len(r.buf)

\* The bound that every read of the PayloadReader checks.
Fits(r, n) == r.at + n - 1 < Len(r.buf)

\* PayloadReader::read_int
ReadInt(r, kind) ==
  IF ~r.ok \/ ~Fits(r, Width[kind]) THEN Failed(r)
  ELSE [r EXCEPT !.at = @ + Width[kind], !.val = FromNetBytes(Take(r, Width[kind]))]

\* read_bytes, and read_path, which leaves the terminator out; n has read the length.
ReadSpan(n, drop) ==
  IF ~n.ok \/ ~Fits(n, n.val) THEN Failed(n)
  ELSE [n EXCEPT !.at = @ + n.val, !.val = Take(n, n.val - drop)]

ReadScalar(r, kind) ==
  IF kind \in {"path", "bytes"} THEN ReadSpan(ReadInt(r, "u64"), IF kind = "path" THEN 1 ELSE 0)
  ELSE ReadInt(r, kind)

\* The TRY chain over a layout: p.msg collects the fields.
Field(msg, name, r) ==
  [r |-> r, msg |-> [x \in DOMAIN msg \cup {name} |-> IF x = name THEN r.val ELSE msg[x]]]

ReadField(p, f) == Field(p.msg, f[1], ReadScalar(p.r, f[2]))

ReadFields(r, layout) == FoldLeft(ReadField, [r |-> r, msg |-> << >>], layout)

\* The entries of a listing; n has read their number.
Entry(entries, e) == [r |-> e.r, msg |-> [entries |-> Append(entries, e.msg)]]

ReadEntry(p, k) == Entry(p.msg.entries, ReadFields(p.r, << <<"name", "path">> >> \o StatRead))

ReadEntries(n) ==
  FoldLeft(ReadEntry, [r |-> n, msg |-> [entries |-> << >>]],
           [k \in 1..(IF n.ok THEN n.val ELSE 0) |-> k])

\* parse_request and parse_response: the message, or None for a bad payload.
Parsed(p, None) == IF p.r.ok THEN p.msg ELSE None

Parse(layout, payload, None) ==
  Parsed(IF layout = ResponseRead.Listdir THEN ReadEntries(ReadInt(Reader(payload), "u64"))
         ELSE ReadFields(Reader(payload), layout), None)

ParseRequest(proc, payload, None) == Parse(RequestRead[proc], payload, None)

\* A Read's answer is cut to the room the request gave.
CutToRoom(proc, msg, room, None) ==
  IF proc = "Read" /\ msg # None
  THEN [read |-> SubSeq(msg.read, 1, IF Len(msg.read) < room THEN Len(msg.read) ELSE room)]
  ELSE msg

ParseResponse(proc, payload, room, None) ==
  CutToRoom(proc, Parse(ResponseRead[proc], payload, None), room, None)

\* receive_request_header and receive_response_header: an unknown procedure is None.
ReadProcedure(digit, None) == IF digit + 1 \in DOMAIN Procedure THEN Procedure[digit + 1] ELSE None

\* read_status narrows the i32 it has read to a u8.
ReadStatus(v) == v % Radix

RequestHeader(m, None) ==
  [id |-> m.id, proc |-> ReadProcedure(m.proc, None), status |-> 0, size |-> m.size]

ReadRequestHeader(h, None) ==
  RequestHeader(ReadFields(Reader(h), << <<"id", "u32">>, <<"proc", "u8">>, <<"size", "u64">> >>).msg, None)

ResponseHeader(m, None) ==
  [id |-> m.id, proc |-> ReadProcedure(m.proc, None), status |-> ReadStatus(m.status), size |-> m.size]

ReadResponseHeader(h, None) ==
  ResponseHeader(ReadFields(Reader(h), << <<"id", "u32">>, <<"proc", "u8">>, <<"status", "i32">>,
                                          <<"size", "u64">> >>).msg, None)

\* async::write_lv
WriteLv(text) == WriteInt("u32", Len(text)) \o text
=============================================================================
