----------------------------- MODULE NetBuffer -----------------------------
(***************************************************************************)
(* net::Buffer as its users see it: bytes go in behind, a head may go in   *)
(* front, bytes come out in front; recv and libevent write into the memory *)
(* behind the content themselves.                                          *)
(***************************************************************************)
EXTENDS BufferOps

CONSTANTS
  InitialSize,  \* kInitialSize
  MaxSize,      \* bound: what the memory grows to
  MaxLen,       \* bound: how many bytes one call is about
  ByteMod       \* bound: bytes are numbered round

ASSUME NetBufferAssumption ==
  /\ CheapPrepend \in Nat /\ InitialSize \in Nat /\ MaxSize \in Nat /\ MaxLen \in Nat
  /\ ByteMod \in Nat \ {0}

VARIABLES
  nb,       \* the buffer
  content,  \* history: what has been put in and not been read
  next      \* history: the next byte

bufferVars == <<nb, content, next>>

BufferInit == nb = NewBuffer(InitialSize) /\ content = <<>> /\ next = 1

NewBytes(len) == [i \in 1 .. len |-> (next + i - 1) % ByteMod]
Used(len)  == next' = (next + len) % ByteMod

AppendBuf(len) ==
  /\ nb' = AppendBytes(nb, NewBytes(len)) /\ MemSize(nb') <= MaxSize
  /\ content' = content \o NewBytes(len) /\ Used(len)

\* Bound: only where the content, moved back, stays within the memory.
PrependBuf(len) ==
  /\ LET v == PrependRoom(nb, NewBytes(len))
     IN  len > nb.r => len + Readable(v) <= MemSize(v)
  /\ nb' = PrependBytes(nb, NewBytes(len)) /\ MemSize(nb') <= MaxSize
  /\ content' = NewBytes(len) \o content /\ Used(len)

\* A read of len bytes, or the end of a packet: more than there are is all there are.
ReadBuf(len) ==
  /\ nb' = ReaderMove(nb, len)
  /\ content' = IF len < Len(content) THEN SubSeq(content, len + 1, Len(content)) ELSE <<>>
  /\ UNCHANGED next

\* alloc_buffer, recv, after_read.
RecvBuf(len) ==
  LET v == MakeSpace(nb, 1)
  IN  /\ len <= Writable(v) /\ MemSize(v) <= MaxSize
      /\ nb' = WriterMove([v EXCEPT !.mem = Write(@, v.w, NewBytes(len))], len)
      /\ content' = content \o NewBytes(len) /\ Used(len)

ShrinkBuf(reserve) ==
  /\ nb' = Shrunk(nb, reserve, InitialSize) /\ MemSize(nb') <= MaxSize
  /\ UNCHANGED <<content, next>>

ClearBuf == nb' = Cleared(nb) /\ content' = <<>> /\ UNCHANGED next

BufferNext ==
  \/ \E len \in 1 .. MaxLen : AppendBuf(len) \/ PrependBuf(len) \/ ReadBuf(len) \/ RecvBuf(len)
  \/ \E reserve \in 0 .. 1 : ShrinkBuf(reserve)
  \/ ClearBuf

BufferSpec == BufferInit /\ [][BufferNext]_bufferVars

-----------------------------------------------------------------------------
(* Properties                                                              *)

\* The indices are in order (buffer.h:23) and the bytes between them are those put in
\* and not read, in order, however the memory grows and the content moves in it.
BufferHolds ==
  /\ 0 <= nb.r /\ nb.r <= nb.w /\ nb.w <= MemSize(nb)
  /\ Content(nb) = content
=============================================================================
