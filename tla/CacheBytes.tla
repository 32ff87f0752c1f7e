----------------------------- MODULE CacheBytes -----------------------------
(***************************************************************************)
(* One file in madbfs's page cache, byte by byte, driven by one caller at  *)
(* a time: what Cache::read, write, flush, evict and truncate, and a copy  *)
(* made on the device, do to the bytes, with the size Filesystem keeps in  *)
(* the node's stat.  Module Cache is about the interleavings; here every   *)
(* operation is one step and the list has room for every page, so an       *)
(* eviction is the effect of another file's traffic and may take any page. *)
(***************************************************************************)
EXTENDS PageSpan, SequencesExt

CONSTANTS
  Byte,          \* byte values clients write
  MaxSize,       \* bound: no write or truncation goes past this size
  AnyWrite,      \* FALSE: only writes that leave nothing of an uncached page behind
  AnyTruncate,   \* FALSE: only truncations that do not shrink the file
  AnyCopy,       \* FALSE: only copies onto bytes of which no page is cached
  None           \* no page; also an output byte that no page delivered

ASSUME CacheBytesAssumption ==
  /\ MaxSize \in Nat
  /\ AnyWrite \in BOOLEAN /\ AnyTruncate \in BOOLEAN /\ AnyCopy \in BOOLEAN
  /\ Byte \subseteq Nat

\* The number of pages n bytes take.
NumPages(n) == (n + PageSize - 1) \div PageSize

Idx == 0..(NumPages(MaxSize) - 1)

VARIABLES
  pages,    \* LookupEntry::pages: page index -> Page, or None
  device,   \* the bytes of the file on the device
  size,     \* st_size of the node
  content   \* ghost: the bytes as POSIX defines them after the operations so far

vars == <<pages, device, size, content>>

\* The bytes the device holds for page i: on_miss.
Fetch(i) == ReadFile(device, i * PageSize, PageSize)

\* The page read_at finds, or fetches.
PageFor(i) == IF pages[i] # None THEN pages[i] ELSE NewPage(i, Fetch(i))

-----------------------------------------------------------------------------
(* Cache::read *)

\* What the pieces of a read leave in the caller's buffer, and how many bytes
\* read says it has.
ReadPiece(i, off, n) == PageRead(PageFor(i), LocalOffset(i, off), LocalSize(i, off, n))

ReadBuffer(off, n) ==
  FoldLeft(LAMBDA buf, i : Overlay(buf, BufferOffset(i, off), ReadPiece(i, off, n)),
           [k \in 1..n |-> None],
           [k \in 1..(LastPage(off, n) - FirstPage(off) + 1) |-> FirstPage(off) + k - 1])

ReadCount(off, n) ==
  FoldLeft(LAMBDA sum, i : sum + Len(ReadPiece(i, off, n)), 0,
           [k \in 1..(LastPage(off, n) - FirstPage(off) + 1) |-> FirstPage(off) + k - 1])

ReadResult(off, n) == SubSeq(ReadBuffer(off, n), 1, ReadCount(off, n))

\* The kernel reads below the size it was told, rounded up to its own page, which
\* divides m_page_size.  The pages stay cached.
Read(off, n) ==
  /\ off < size /\ LastPage(off, n) < NumPages(size)
  /\ pages' = [i \in Idx |-> IF FirstPage(off) <= i /\ i <= LastPage(off, n)
                             THEN PageFor(i) ELSE pages[i]]
  /\ UNCHANGED <<device, size, content>>

-----------------------------------------------------------------------------
(* Cache::write and Filesystem::write *)

\* write_at starts an uncached page from zeros, without fetching it.
PageToWrite(i) == IF pages[i] # None THEN pages[i] ELSE NewPage(i, << >>)

\* Every page of the range is cached, or has no bytes outside the range.
CoversItsPages(off, n) ==
  /\ off <= size
  /\ \A i \in FirstPage(off)..LastPage(off, n) :
       \/ pages[i] # None
       \/ /\ off <= i * PageSize \/ size <= i * PageSize
          /\ off + n >= MinOf(size, (i + 1) * PageSize)

Write(off, d) ==
  LET n == Len(d) IN
  /\ AnyWrite \/ CoversItsPages(off, n)
  /\ pages' = [i \in Idx |->
       IF FirstPage(off) <= i /\ i <= LastPage(off, n)
       THEN PageWrite(PageToWrite(i), LocalOffset(i, off),
                      SubSeq(d, BufferOffset(i, off) + 1,
                                BufferOffset(i, off) + LocalSize(i, off, n)))
       ELSE pages[i]]
  /\ size' = MaxOf(size, off + n)
  /\ content' = WriteFile(content, off, d)
  /\ UNCHANGED device

-----------------------------------------------------------------------------
(* Cache::flush, Cache::evict and Cache::shutdown *)

IsDirty(i) == pages[i] # None /\ pages[i].dirty

\* flush_at: the valid bytes of page i go to their place in the file.
FlushAt(f, i) == IF IsDirty(i) THEN WriteFile(f, i * PageSize, PageBytes(pages[i])) ELSE f

\* Seeded fault: the last page is marked clean without a write.
FlushShort ==
  /\ \E i \in Idx : IsDirty(i)
  /\ device' = FoldLeft(FlushAt, device, [k \in 1..(NumPages(MaxSize) - 1) |-> k - 1])
  /\ pages' = [i \in Idx |-> IF IsDirty(i) THEN [pages[i] EXCEPT !.dirty = FALSE] ELSE pages[i]]
  /\ UNCHANGED <<size, content>>

\* The device once every dirty page is written, and the pages marked clean.
Written == FoldLeft(FlushAt, device, [k \in 1..NumPages(MaxSize) |-> k - 1])

Cleaned == [i \in Idx |-> IF IsDirty(i) THEN [pages[i] EXCEPT !.dirty = FALSE] ELSE pages[i]]

Flush ==
  /\ \E i \in Idx : IsDirty(i)
  /\ device' = Written
  /\ pages' = Cleaned
  /\ UNCHANGED <<size, content>>

Evict(i) ==
  /\ pages[i] # None
  /\ device' = FlushAt(device, i)
  /\ pages' = [pages EXCEPT ![i] = None]
  /\ UNCHANGED <<size, content>>

\* Everything is written and dropped: invalidate_all, set_page_size, set_max_pages.
Shutdown ==
  /\ device' = Written
  /\ pages' = [i \in Idx |-> None]
  /\ UNCHANGED <<size, content>>

-----------------------------------------------------------------------------
(* Filesystem::truncate with Cache::truncate *)

ResizeFile(f, n) == IF n <= Len(f) THEN SubSeq(f, 1, n) ELSE f \o Zeros(n - Len(f))

\* What Cache::truncate does to the cached page i; the page counts are unsigned,
\* so with an old size of 0 every index is below old - 1.
TruncatePage(i, n) ==
  LET old == NumPages(size)
      new == NumPages(n)
  IN  IF i < MaxOf(1, MinOf(old, new)) - 1 \/ i >= MaxOf(old, new) THEN pages[i]
      ELSE IF old = 0 \/ i < old - 1 THEN None
      ELSE IF i > old - 1 THEN pages[i]
      ELSE PageTruncate(pages[i], IF i = new - 1 THEN ((n - 1) % PageSize) + 1 ELSE PageSize)

Truncate(n) ==
  /\ AnyTruncate \/ n >= size
  /\ device' = ResizeFile(device, n)
  /\ pages' = [i \in Idx |-> IF pages[i] = None THEN None ELSE TruncatePage(i, n)]
  /\ size' = n
  /\ content' = ResizeFile(content, n)

-----------------------------------------------------------------------------
(* Filesystem::copy_file_range, from one part of the file to another *)

\* The device reads up to n bytes, fewer at the end of the file, and writes them.
CopyRange(f, in, out, n) == WriteFile(f, out, ReadFile(f, in, n))

\* No page of the copied bytes, nor of a gap before them, is cached.
OutUncached(out, n) ==
  \A i \in FirstPage(MinOf(out, size))..LastPage(out, n) : pages[i] = None

\* Both handles are flushed, the device copies, and the node takes the size the
\* device reports.  The cached pages stay.  The kernel refuses overlapping ranges
\* of one file, and a copy from the end of the file is of nothing.
CopyFileRange(in, out, n) ==
  /\ in < size
  /\ in + n <= out \/ out + n <= in
  /\ AnyCopy \/ OutUncached(out, n)
  /\ device' = CopyRange(Written, in, out, n)
  /\ pages' = Cleaned
  /\ size' = Len(device')
  /\ content' = CopyRange(content, in, out, n)

-----------------------------------------------------------------------------
\* Byte strings of length 1 to n in which neighbours differ, so that a shifted or
\* repeated byte shows.
Strings(n) ==
  UNION {{d \in [1..m -> Byte] : \A k \in 1..(m - 1) : d[k] # d[k + 1]} : m \in 1..n}

Init ==
  /\ pages = [i \in Idx |-> None]
  /\ device \in Strings(MaxSize) \cup {<< >>}
  /\ size = Len(device)
  /\ content = device

Next ==
  \/ \E off \in 0..(MaxSize - 1) : \E n \in 1..(MaxSize - off) : Read(off, n)
  \/ \E off \in 0..(MaxSize - 1) : \E d \in Strings(MaxSize - off) : Write(off, d)
  \/ Flush
  \/ \E i \in Idx : Evict(i)
  \/ Shutdown
  \/ \E n \in 0..MaxSize : Truncate(n)
  \/ \E in, out \in 0..(MaxSize - 1) :
       \E n \in 1..(MaxSize - MaxOf(in, out)) : CopyFileRange(in, out, n)

Spec == Init /\ [][Next]_vars

-----------------------------------------------------------------------------
(* Properties *)

\* A page never claims more than a page of bytes, and lies below the size bound.
TypeOK ==
  /\ \A i \in Idx : pages[i] # None =>
       /\ pages[i].key = i /\ pages[i].size \in 0..PageSize
       /\ Len(pages[i].data) = PageSize /\ pages[i].dirty \in BOOLEAN
  /\ Len(device) <= MaxSize /\ size \in 0..MaxSize

\* Whatever mix of cached, evicted, flushed and never fetched pages a request
\* meets, a read below the file's size returns exactly the file's bytes: the page
\* cuts of read_at and write_at fit together, no byte is lost, shifted or made up.
ReadsAsWritten ==
  \A off \in 0..(MaxSize - 1) : \A n \in 1..(MaxSize - off) :
    off < size => ReadResult(off, n) = ReadFile(content, off, n)

\* When the cache holds nothing dirty the device has the file, to its last byte.
DeviceAsWritten == (\A i \in Idx : ~IsDirty(i)) => device = content
=============================================================================
