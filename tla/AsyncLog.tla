------------------------------ MODULE AsyncLog ------------------------------
(***************************************************************************)
(* AsyncLog: a front thread appends to the current buffer, a writer thread *)
(* takes the buffers over and writes them to the file without the mutex.   *)
(* Buffers are passed around by pointer and used again; a buffer that the  *)
(* front fills while the writer writes it would garble the log.            *)
(*                                                                         *)
(* Entries are the numbers 1, 2, ... in the order of Append. Sizes are     *)
(* left out: an entry may fill the buffer or not.                          *)
(***************************************************************************)
EXTENDS Naturals, Sequences, SequencesExt

CONSTANTS
  NBufs,   \* bound: Buffer objects at one time
  MaxMsgs  \* bound: entries appended in a behaviour

ASSUME BoundAssumption == NBufs \in Nat /\ NBufs >= 4 /\ MaxMsgs \in Nat

Bufs == 1 .. NBufs
Null == 0

VARIABLES
  data,      \* data[b]: the entries in buffer b
  curBuf,    \* _curBuf
  nextBuf,   \* _nextBuf, Null once Append has used it
  bufVec,    \* _bufVec: the full buffers
  running,   \* _running
  spare1,    \* spareBuf1 of _WriteLoop
  spare2,    \* spareBuf2
  toWrite,   \* bufToWriteVec
  written,   \* how many buffers of its vector the writer has written
  pc,        \* where _WriteLoop is: "check", "wait", "io", "recycle",
             \* and after the loop "final", "rest", "end"
  front,     \* the thread that owns the log: "run", "join" in Stop(), "done"
  appended,  \* number of the last entry appended
  file       \* the entries in the file

frontVars  == <<running, front, appended>>
writerVars == <<spare1, spare2, toWrite, written, pc, file>>
bufVars    == <<data, curBuf, nextBuf, bufVec>>
vars       == <<bufVars, frontVars, writerVars>>

InUse == {curBuf, nextBuf, spare1, spare2} \cup ToSet(bufVec) \cup ToSet(toWrite)
Fresh == {b \in Bufs : b \notin InUse /\ \A c \in Bufs \ InUse : b <= c}

Init ==
  /\ data = [b \in Bufs |-> <<>>]
  /\ curBuf = 1 /\ nextBuf = 2 /\ bufVec = <<>>
  /\ spare1 = 3 /\ spare2 = 4 /\ toWrite = <<>> /\ written = 0
  /\ running = TRUE /\ pc = "check" /\ front = "run"
  /\ appended = 0 /\ file = <<>>

-----------------------------------------------------------------------------
(* The front thread                                                        *)

\* Fault: the spare buffer is used and stays the spare one.
UseNextBufTwice ==
  /\ nextBuf # Null
  /\ curBuf' = nextBuf
  /\ UNCHANGED nextBuf

\* The buffer is full: it is queued, and the spare one or a new one is next.
UseNextBuf ==
  /\ nextBuf # Null
  /\ curBuf' = nextBuf
  /\ nextBuf' = Null

UseNewBuf ==
  /\ nextBuf = Null
  /\ curBuf' \in Fresh
  /\ UNCHANGED nextBuf

UseBuf == UseNextBuf \/ UseNewBuf

\* Append: one critical section. A buffer that was just made is empty.
AppendEntry ==
  /\ front = "run"
  /\ appended < MaxMsgs
  /\ appended' = appended + 1
  /\ \/ UNCHANGED <<curBuf, nextBuf, bufVec>>
     \/ bufVec' = Append(bufVec, curBuf) /\ UseBuf
  /\ data' = [b \in Bufs |-> IF b = curBuf THEN Append(data[b], appended')
                             ELSE IF b \notin InUse THEN <<>> ELSE data[b]]
  /\ UNCHANGED <<running, front, writerVars>>

\* Fault: the writer is not told to end.
StopUntold ==
  /\ front = "run"
  /\ front' = "join"
  /\ UNCHANGED <<running, appended, bufVars, writerVars>>

\* Stop, called by the destructor: _running is not protected by the mutex.
Stop ==
  /\ front = "run"
  /\ running' = FALSE
  /\ front' = "join"
  /\ UNCHANGED <<appended, bufVars, writerVars>>

\* _thread->join() returns.
Joined ==
  /\ front = "join"
  /\ pc = "end"
  /\ front' = "done"
  /\ UNCHANGED <<running, appended, bufVars, writerVars>>

-----------------------------------------------------------------------------
(* The writer thread                                                       *)

\* while (_running), read without the mutex.
Check ==
  /\ pc = "check"
  /\ pc' = IF running THEN "wait" ELSE "final"
  /\ UNCHANGED <<bufVars, frontVars, spare1, spare2, toWrite, written, file>>

\* Fault: only full buffers are taken over.
WakeFullOnly ==
  /\ pc = "wait"
  /\ pc' = "io"
  /\ toWrite' = bufVec /\ bufVec' = <<>>
  /\ UNCHANGED <<data, curBuf, nextBuf, spare1, spare2, frontVars, written, file>>

\* Fault: the second spare buffer is given away although there is a next one.
WakeGivesBoth ==
  /\ pc = "wait"
  /\ pc' = "io"
  /\ toWrite' = Append(bufVec, curBuf) /\ bufVec' = <<>>
  /\ curBuf' = spare1 /\ nextBuf' = spare2 /\ spare1' = Null /\ spare2' = Null
  /\ UNCHANGED <<data, frontVars, written, file>>

\* wait_for ends by a notification, the 180 s or spuriously: the full buffers
\* and the current one are taken over, the spare ones take their places.
Wake ==
  /\ pc = "wait"
  /\ pc' = "io"
  /\ toWrite' = Append(bufVec, curBuf) /\ bufVec' = <<>>
  /\ curBuf' = spare1 /\ spare1' = Null
  /\ IF nextBuf = Null THEN nextBuf' = spare2 /\ spare2' = Null
                       ELSE UNCHANGED <<nextBuf, spare2>>
  /\ UNCHANGED <<data, frontVars, written, file>>

\* _writeLogFunc writes one buffer of its vector after the other.
WriteNext(vec, done) ==
  /\ written < Len(vec)
  /\ file' = file \o data[vec[written + 1]]
  /\ written' = written + 1
  /\ pc' = IF written' = Len(vec) THEN done ELSE pc

\* The buffers taken over are written while the front goes on.
WriteBuf ==
  /\ pc = "io"
  /\ WriteNext(toWrite, "recycle")
  /\ UNCHANGED <<bufVars, frontVars, spare1, spare2, toWrite>>

\* Two of the written buffers become the spare ones; the others are freed.
Recycle ==
  /\ pc = "recycle"
  /\ pc' = "check"
  /\ spare1' = IF spare1 = Null THEN toWrite[1] ELSE spare1
  /\ spare2' = IF spare2 = Null THEN toWrite[2] ELSE spare2
  /\ data' = [b \in Bufs |-> IF \/ spare1 = Null /\ b = toWrite[1]
                                \/ spare2 = Null /\ b = toWrite[2]
                             THEN <<>> ELSE data[b]]
  /\ toWrite' = <<>> /\ written' = 0
  /\ UNCHANGED <<curBuf, nextBuf, bufVec, frontVars, file>>

\* Fault: the current buffer is not written at the end.
FinalFullOnly ==
  /\ pc = "final"
  /\ pc' = IF bufVec = <<>> THEN "end" ELSE "rest"
  /\ UNCHANGED <<bufVars, frontVars, spare1, spare2, toWrite, written, file>>

\* After the loop, without the mutex: the current buffer joins the full ones
Final ==
  /\ pc = "final"
  /\ pc' = "rest"
  /\ bufVec' = Append(bufVec, curBuf)
  /\ UNCHANGED <<data, curBuf, nextBuf, frontVars, spare1, spare2, toWrite, written, file>>

\* and they are written.
WriteRest ==
  /\ pc = "rest"
  /\ WriteNext(bufVec, "end")
  /\ UNCHANGED <<bufVars, frontVars, spare1, spare2, toWrite>>

Writer == Check \/ Wake \/ WriteBuf \/ Recycle \/ Final \/ WriteRest

Next == AppendEntry \/ Stop \/ Joined \/ Writer

Spec == Init /\ [][Next]_vars

\* The writer thread is scheduled and its wait times out; join returns.
FairSpec == Spec /\ WF_vars(Writer) /\ WF_vars(Joined)

-----------------------------------------------------------------------------
(* Properties                                                              *)

\* The buffers the front fills, those the writer writes and the spare ones are
\* different objects: nothing is appended to a buffer that is being written,
\* nor is one used for two things (AsyncLog.h:9, AsyncLog.cpp:57-65). At the end
\* only the writer is left.
BuffersApart ==
  LET roles == <<curBuf, nextBuf, spare1, spare2>> \o bufVec \o toWrite
  IN  pc \notin {"rest", "end"} =>
        \A i, j \in DOMAIN roles : roles[i] = roles[j] /\ roles[i] # Null => i = j

\* There is always a buffer to append to, and the buffers Recycle takes by
\* index 0 and 1 (AsyncLog.cpp:64-65) exist.
BuffersThere ==
  /\ curBuf # Null
  /\ pc = "wait" => spare1 # Null /\ spare2 # Null
  /\ pc = "recycle" /\ spare2 = Null => Len(toWrite) >= 2

\* An entry reaches the file although no further one is logged (AsyncLog.h:6).
FlushedInTime ==
  \A n \in 1 .. MaxMsgs : appended >= n ~> n \in ToSet(file)

\* Stop returns: no wakeup that was missed blocks the join (AsyncLog.h:41).
StopReturns == front = "join" ~> front = "done"

Fifo == INSTANCE FifoLog WITH
          Entries <- 1 .. MaxMsgs,
          log     <- [i \in 1 .. appended |-> i],
          closed  <- front = "done"

\* The file is always a prefix of the log, whenever the process dies, and is
\* complete when the log was stopped (AsyncLog.h:24-25, AsyncLog.cpp:71).
ImplementsFifoLog == Fifo!Spec
=============================================================================
