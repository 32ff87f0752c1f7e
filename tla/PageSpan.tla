------------------------------ MODULE PageSpan ------------------------------
(***************************************************************************)
(* The page arithmetic of madbfs's cache: how Cache::read and Cache::write *)
(* cut a byte range of a file into page-sized pieces, and how one piece is *)
(* copied out of, or into, one cached Page.  Offsets and lengths are those *)
(* of the FUSE request; a page index i covers the file bytes               *)
(* i*PageSize .. (i+1)*PageSize-1.                                         *)
(*                                                                         *)
(* Byte strings are TLA+ sequences: byte k of a buffer is element k+1.     *)
(***************************************************************************)
EXTENDS Integers, Sequences

CONSTANT PageSize       \* Cache::m_page_size, a power of two in the code

ASSUME PageSizeAssumption == PageSize \in Nat \ {0}

MinOf(a, b) == IF a < b THEN a ELSE b
MaxOf(a, b) == IF a < b THEN b ELSE a

-----------------------------------------------------------------------------
(* Cache::read / Cache::write: the first and the last page of the range.   *)
(* A FUSE read or write is never empty, so n >= 1 and the subtraction does *)
(* not wrap.                                                               *)

FirstPage(off)   == off \div PageSize
LastPage(off, n) == (off + n - 1) \div PageSize

(* read_at / write_at: where the piece of page i starts inside the page,   *)
(* how many bytes it has, and where it lies in the caller's buffer.        *)

LocalOffset(i, off) == IF i = FirstPage(off) THEN off % PageSize ELSE 0

LocalSize(i, off, n) ==
  IF i = LastPage(off, n)
  THEN ((n + (off % PageSize) - 1) % PageSize) + 1 - LocalOffset(i, off)
  ELSE PageSize - LocalOffset(i, off)

\* Seeded fault: the pieces are laid out as if the first one were a whole page.
BufferOffsetAligned(i, off) == (i - FirstPage(off)) * PageSize

BufferOffset(i, off) ==
  IF i > FirstPage(off)
  THEN (i - FirstPage(off)) * PageSize - (off % PageSize)
  ELSE 0

-----------------------------------------------------------------------------
(* Byte strings *)

\* s with the bytes d written from position o on (o + Len(d) <= Len(s)).
Overlay(s, o, d) ==
  [k \in 1..Len(s) |-> IF o < k /\ k <= o + Len(d) THEN d[k - o] ELSE s[k]]

\* n bytes of value 0, as value-initialised arrays and file holes have.
Zeros(n) == [k \in 1..n |-> 0]

\* A file after pwrite of d at o: the hole before o, if any, reads as zeros.
WriteFile(f, o, d) ==
  Overlay(f \o Zeros(MaxOf(0, o + Len(d) - Len(f))), o, d)

\* At most n bytes of a file from o on: pread.
ReadFile(f, o, n) == SubSeq(f, o + 1, MinOf(Len(f), o + n))

-----------------------------------------------------------------------------
(* class Page.  data is the whole buffer of PageSize bytes, of which the   *)
(* first size are valid.                                                   *)

\* Seeded fault: the buffer is only as long as what the device returned.
NewPageShort(key, bytes) ==
  [key |-> key, data |-> bytes, size |-> Len(bytes), dirty |-> FALSE]

NewPage(key, bytes) ==
  [key   |-> key,
   data  |-> bytes \o Zeros(PageSize - Len(bytes)),
   size  |-> Len(bytes),
   dirty |-> FALSE]

\* Page::buf
PageBytes(p) == SubSeq(p.data, 1, p.size)

\* Page::read.  m_size - offset is unsigned: past the end of the valid bytes
\* it wraps, and the whole request is copied from the buffer.
PageRead(p, o, n) ==
  SubSeq(p.data, o + 1, o + (IF o > p.size THEN n ELSE MinOf(p.size - o, n)))

\* Page::write followed by set_dirty(true), as write_at does.  What does not fit
\* into the page is left out.
PageWrite(p, o, d) ==
  LET n == MinOf(Len(d), PageSize - o) IN
  IF o >= PageSize THEN [p EXCEPT !.dirty = TRUE]
  ELSE [p EXCEPT !.data  = Overlay(@, o, SubSeq(d, 1, n)),
                 !.size  = MaxOf(@, o + n),
                 !.dirty = TRUE]

\* Page::truncate
PageTruncate(p, n) == [p EXCEPT !.size = MinOf(n, PageSize)]
=============================================================================
