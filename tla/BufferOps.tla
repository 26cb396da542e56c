----------------------------- MODULE BufferOps -----------------------------
(***************************************************************************)
(* The operations of net::Buffer on its memory and its two indices, as     *)
(* functions: b.mem is _buffer, b.r and b.w are _rpos and _wpos, counted   *)
(* from 0. What a new byte of the vector holds is 0.                       *)
(***************************************************************************)
EXTENDS Integers, Sequences, SequencesExt

CONSTANT CheapPrepend  \* kCheapPrepend

Zeros(n) == [i \in 1 .. n |-> 0]

NewBuffer(size) == [mem |-> Zeros(CheapPrepend + size), r |-> CheapPrepend, w |-> CheapPrepend]

MemSize(b)  == Len(b.mem)
Readable(b) == b.w - b.r
Writable(b) == MemSize(b) - b.w
Content(b)  == SubSeq(b.mem, b.r + 1, b.w)

\* std::copy of s to mem, from index i on.
Write(mem, i, s) ==
  [k \in 1 .. Len(mem) |-> IF k - i \in 1 .. Len(s) THEN s[k - i] ELSE mem[k]]

\* Fault: the content moves down without its indices.
MakeSpaceStays(b, len) ==
  IF Writable(b) >= len THEN b
  ELSE IF Writable(b) + b.r < len + CheapPrepend
       THEN [b EXCEPT !.mem = @ \o Zeros(b.w + len - Len(@))]
       ELSE [b EXCEPT !.mem = Write(@, CheapPrepend, Content(b))]

\* makeSpace: more memory, or the content moves down to where it began.
MakeSpace(b, len) ==
  IF Writable(b) >= len THEN b
  ELSE IF Writable(b) + b.r < len + CheapPrepend
       THEN [b EXCEPT !.mem = @ \o Zeros(b.w + len - Len(@))]
       ELSE [mem |-> Write(b.mem, CheapPrepend, Content(b)),
             r |-> CheapPrepend, w |-> CheapPrepend + Readable(b)]

AppendBytes(b, s) ==
  LET v == MakeSpace(b, Len(s))
  IN  [v EXCEPT !.mem = Write(@, v.w, s), !.w = @ + Len(s)]

\* Where the content goes to when s does not fit before it, or moves nothing.
PrependRoom(b, s) == IF Len(s) <= b.r THEN b ELSE MakeSpace(b, Len(s) - b.r)

PrependBytes(b, s) ==
  LET v == PrependRoom(b, s)
  IN  IF Len(s) <= b.r
      THEN [b EXCEPT !.mem = Write(@, b.r - Len(s), s), !.r = @ - Len(s)]
      ELSE [mem |-> Write(Write(v.mem, Len(s), Content(v)), 0, s),
            r |-> 0, w |-> v.w + Len(s) - v.r]

\* All read: back to the beginning.
ReaderMove(b, len) ==
  IF len < Readable(b) THEN [b EXCEPT !.r = @ + len]
  ELSE [b EXCEPT !.r = CheapPrepend, !.w = CheapPrepend]

\* For what has been written behind beginWrite.
WriterMove(b, len) == LET v == MakeSpace(b, len) IN [v EXCEPT !.w = @ + len]

Cleared(b) == [b EXCEPT !.r = CheapPrepend, !.w = CheapPrepend]

Shrunk(b, reserve, initialSize) ==
  AppendBytes(MakeSpace(NewBuffer(initialSize), Readable(b) + reserve), Content(b))
=============================================================================
