------------------------------ MODULE PackOps ------------------------------
(***************************************************************************)
(* ByteBuffer and NetPack as functions: p.store is _storage, p.r and p.w   *)
(* are _rpos and _wpos. A byte of the value v is 8 * v + its place in it,  *)
(* so that what is read out of place is seen; all bytes of 0 are 0.        *)
(***************************************************************************)
EXTENDS Integers, Sequences, SequencesExt

ItemBytes(v, n) == [i \in 1 .. n |-> IF v = 0 THEN 0 ELSE 8 * v + i]
Value(s)    == s[1] \div 8

NewStorage == [store |-> <<>>, r |-> 0, w |-> 0]

\* vector::resize; clear and resize move both positions to the end.
ZeroBytes(n)  == [i \in 1 .. n |-> 0]
Resized(s, n) == SubSeq(s \o ZeroBytes(n - Len(s)), 1, n)
Resize(p, n)  == [store |-> Resized(p.store, n), r |-> n, w |-> n]

AppendTo(p, s) ==
  LET n == p.w + Len(s)
  IN  IF s = <<>> THEN p
      ELSE [p EXCEPT !.store = Resized(@, p.w) \o s \o SubSeq(@, n + 1, Len(@)),
                     !.w = n]

\* put, into what there is.
PutAt(p, pos, s) ==
  [p EXCEPT !.store = SubSeq(@, 1, pos) \o s \o SubSeq(@, pos + Len(s) + 1, Len(@))]

\* show: 0 behind the end of what was written. read moves on even there.
Show(p, pos, n) == IF pos + n > p.w THEN 0 ELSE Value(SubSeq(p.store, pos + 1, pos + n))

\* An item is a number of n bytes, or a string of n bytes behind its length.
Items ==
  [str : {FALSE}, n : Nat \ {0}, v : Nat] \cup
  {x \in [str : {TRUE}, n : Nat, v : Nat] : x.n = 0 => x.v = 0}

WriteItem(p, item) ==
  LET head == IF item.str THEN ItemBytes(item.n, 2) ELSE <<>>
  IN  AppendTo(p, head \o ItemBytes(item.v, item.n))

\* What is read of the type of item, and the pack then: [v, p].
ReadItem(p, item) ==
  LET len == IF item.str THEN Show(p, p.r, 2) ELSE item.n
      pos == IF item.str THEN p.r + 2 ELSE p.r
  IN  [v |-> IF len = 0 THEN 0 ELSE Show(p, pos, len), p |-> [p EXCEPT !.r = pos + len]]

WriteItems(p, items) ==
  LET s[k \in 0 .. Len(items)] == IF k = 0 THEN p ELSE WriteItem(s[k - 1], items[k])
  IN  s[Len(items)]

ReadNext(a, item) ==
  LET x == ReadItem(a.p, item) IN [p |-> x.p, vs |-> Append(a.vs, x.v)]

ReadItems(p, items) ==
  LET s[k \in 0 .. Len(items)] ==
        IF k = 0 THEN [p |-> p, vs |-> <<>>] ELSE ReadNext(s[k - 1], items[k])
  IN  s[Len(items)]

-----------------------------------------------------------------------------
(* NetPack: the head                                                       *)

TypeIndex   == 0
OpcodeIndex == 1
ReqIdxIndex == 3
HeaderSize  == 7

TypeTcp == 1

SetType(p, v)   == PutAt(p, TypeIndex, ItemBytes(v, 1))
SetOpCode(p, v) == PutAt(p, OpcodeIndex, ItemBytes(v, 2))
SetReqIdx(p, v) == PutAt(p, ReqIdxIndex, ItemBytes(v, 4))
OpCode(p)    == Show(p, OpcodeIndex, 2)
GetReqKey(p) == <<OpCode(p), Show(p, ReqIdxIndex, 4)>>
BodySize(p)  == p.w - HeaderSize

NewPack == SetType(Resize(NewStorage, HeaderSize), TypeTcp)

\* A pack that has come: it is read behind its head.
PackOf(bytes) == [AppendTo(NewStorage, bytes) EXCEPT !.r = HeaderSize]

\* Fault: the opcode stays.
ClearPackOnly(p) == SetType(Resize(p, HeaderSize), TypeTcp)

ClearPack(p) == SetType(SetOpCode(Resize(p, HeaderSize), 0), TypeTcp)

ResetHead(p, other) ==
  [AppendTo(Resize(p, 0), SubSeq(other.store, 1, HeaderSize)) EXCEPT !.r = HeaderSize]
=============================================================================
