-------------------------- MODULE AsyncLog_proofs --------------------------
(***************************************************************************)
(* AsyncLog: no two pointers of the two threads ever name one buffer, the  *)
(* buffers Recycle takes exist, and the file is a prefix of the log, and   *)
(* complete when the log is closed, for every number of buffers and of     *)
(* entries. Entries are in the buffers as consecutive intervals: what a    *)
(* writer has still to write, then the full buffers, then the current one. *)
(***************************************************************************)
EXTENDS AsyncLog, SequenceTheorems, TLAPS

\* The entries after a, up to b, in their order.
Interval(a, b) == [i \in 1 .. (b - a) |-> a + i]

\* The buffers q[w + 1], q[w + 2], ... with the contents d hold the entries after a, up to b.
Run(d, q, w, a, b) ==
  \E e \in [w .. Len(q) -> Nat] :
    /\ e[w] = a /\ e[Len(q)] = b
    /\ \A i, j \in w .. Len(q) : i <= j => e[i] <= e[j]
    /\ \A i \in w + 1 .. Len(q) : d[q[i]] = Interval(e[i - 1], e[i])

LogType ==
  /\ data \in [Bufs -> Seq(Nat)]
  /\ curBuf \in Bufs
  /\ {nextBuf, spare1, spare2} \subseteq Bufs \cup {Null}
  /\ bufVec \in Seq(Bufs) /\ toWrite \in Seq(Bufs)
  /\ running \in BOOLEAN
  /\ written \in 0 .. Len(IF pc \in {"rest", "end"} THEN bufVec ELSE toWrite)
  /\ pc \in {"check", "wait", "io", "recycle", "final", "rest", "end"}
  /\ front \in {"run", "join", "done"}
  /\ appended \in Nat
  /\ file \in Seq(Nat)

Distinct(q) == \A i, j \in 1 .. Len(q) : q[i] = q[j] => i = j

\* What BuffersApart says, without laying the buffers out in one sequence.
Apart ==
  /\ Distinct(bufVec) /\ Distinct(toWrite)
  /\ \A i \in 1 .. Len(bufVec) : \A j \in 1 .. Len(toWrite) : bufVec[i] # toWrite[j]
  /\ \A b \in {nextBuf, spare1, spare2} : b # curBuf
  /\ nextBuf # Null => nextBuf # spare1 /\ nextBuf # spare2
  /\ spare1 # Null => spare1 # spare2
  /\ \A b \in {nextBuf, spare1, spare2, curBuf} :
       /\ \A i \in 1 .. Len(bufVec) : bufVec[i] # b
       /\ \A i \in 1 .. Len(toWrite) : toWrite[i] # b

\* Where the buffers are at each step of the writer.
Places ==
  /\ pc \notin {"io", "recycle"} => toWrite = <<>> /\ spare1 # Null /\ spare2 # Null
  /\ pc \notin {"io", "recycle", "rest", "end"} => written = 0
  /\ pc = "io" => written < Len(toWrite)
  /\ pc = "recycle" => written = Len(toWrite)
  /\ pc = "rest" => written < Len(bufVec)
  /\ pc = "end" => written = Len(bufVec)
  /\ pc \in {"io", "recycle"} => Len(toWrite) >= 1
  /\ pc \in {"io", "recycle"} /\ spare2 = Null => Len(toWrite) >= 2
  /\ nextBuf = Null => Len(bufVec) >= 1

\* Only a stopped writer leaves its loop, and nothing is appended then.
Ends ==
  /\ front = "run" <=> running
  /\ pc \in {"final", "rest", "end"} => ~running
  /\ front = "done" => pc = "end"

Buffers == Places /\ Ends /\ (pc \notin {"rest", "end"} => Apart)

\* What is in the buffers.
Entries ==
  /\ file = Interval(0, Len(file))
  /\ Len(file) <= appended
  /\ pc \notin {"rest", "end"} =>
       /\ \A b \in {nextBuf, spare1, spare2} \ {Null} : data[b] = <<>>
       /\ \E m, n \in Nat : /\ Run(data, toWrite, written, Len(file), m)
                            /\ Run(data, bufVec, 0, m, n)
                            /\ n <= appended /\ data[curBuf] = Interval(n, appended)
  /\ pc \in {"rest", "end"} => Run(data, bufVec, written, Len(file), appended)

LogInv == LogType /\ Buffers /\ Entries

-----------------------------------------------------------------------------
(* Intervals and runs                                                      *)

LEMMA IntervalSeq ==
  ASSUME NEW a \in Nat, NEW b \in Nat, a <= b
  PROVE  /\ Interval(a, b) \in Seq(Nat)
         /\ Len(Interval(a, b)) = b - a
         /\ Interval(b, b) = <<>>
<1>1. b - a \in Nat
  OBVIOUS
<1>2. \A i \in 1 .. (b - a) : a + i \in Nat
  OBVIOUS
<1>3. Interval(a, b) \in [1 .. (b - a) -> Nat]
  BY <1>2 DEF Interval
<1>4. b - b = 0
  OBVIOUS
<1> QED BY <1>1, <1>3, <1>4 DEF Interval

LEMMA IntervalAppend ==
  ASSUME NEW a \in Nat, NEW b \in Nat, a <= b
  PROVE  Append(Interval(a, b), b + 1) = Interval(a, b + 1)
<1> DEFINE s == Interval(a, b)
           t == Interval(a, b + 1)
<1>0. b + 1 \in Nat /\ a <= b + 1
  OBVIOUS
<1>1. s \in Seq(Nat) /\ Len(s) = b - a /\ t \in Seq(Nat) /\ Len(t) = b + 1 - a
  <2>1. s \in Seq(Nat) /\ Len(s) = b - a
    BY IntervalSeq
  <2>2. t \in Seq(Nat) /\ Len(t) = b + 1 - a
    BY <1>0, IntervalSeq
  <2> QED BY <2>1, <2>2
<1>2. \A i \in 1 .. (b - a) : s[i] = a + i
  BY DEF Interval
<1>3. \A i \in 1 .. (b + 1 - a) : t[i] = a + i
  BY DEF Interval
<1> HIDE DEF s, t
<1>4. Append(s, b + 1) \in Seq(Nat) /\ Len(Append(s, b + 1)) = Len(t)
  BY <1>1
<1>5. \A i \in 1 .. Len(t) : Append(s, b + 1)[i] = t[i]
  BY <1>1, <1>2, <1>3
<1>6. Append(s, b + 1) = t
  BY <1>1, <1>4, <1>5, SeqEqual
<1> QED BY <1>6 DEF s, t

LEMMA IntervalPrefix ==
  ASSUME NEW b \in Nat, NEW n \in Nat, n <= b
  PROVE  Interval(0, n) = SubSeq(Interval(0, b), 1, n)
<1>1. \A i \in 1 .. n : i + 0 = i /\ i \in 1 .. b
  OBVIOUS
<1>2. /\ Interval(0, n) = [i \in 1 .. n |-> 0 + i]
      /\ \A i \in 1 .. n : Interval(0, b)[i] = 0 + i
  BY <1>1 DEF Interval
<1>3. SubSeq(Interval(0, b), 1, n) = [i \in 1 .. n |-> Interval(0, b)[i]]
  OBVIOUS
<1> QED BY <1>2, <1>3

LEMMA IntervalConcat ==
  ASSUME NEW a \in Nat, NEW b \in Nat, NEW c \in Nat, a <= b, b <= c
  PROVE  Interval(a, b) \o Interval(b, c) = Interval(a, c)
<1> DEFINE s == Interval(a, b)
           t == Interval(b, c)
           u == Interval(a, c)
<1>1. /\ s \in Seq(Nat) /\ t \in Seq(Nat) /\ u \in Seq(Nat)
      /\ Len(s) = b - a /\ Len(t) = c - b /\ Len(u) = c - a
  <2>1. s \in Seq(Nat) /\ Len(s) = b - a
    BY IntervalSeq
  <2>2. t \in Seq(Nat) /\ Len(t) = c - b
    BY IntervalSeq
  <2>3. a <= c
    OBVIOUS
  <2>4. u \in Seq(Nat) /\ Len(u) = c - a
    BY <2>3, IntervalSeq
  <2> QED BY <2>1, <2>2, <2>4
<1>2. \A i \in 1 .. (b - a) : s[i] = a + i
  BY DEF Interval
<1>3. \A i \in 1 .. (c - b) : t[i] = b + i
  BY DEF Interval
<1>4. \A i \in 1 .. (c - a) : u[i] = a + i
  BY DEF Interval
<1> HIDE DEF s, t, u
<1>5. s \o t \in Seq(Nat) /\ Len(s \o t) = Len(u)
  BY <1>1
<1>6. \A i \in 1 .. Len(u) : (s \o t)[i] = u[i]
  <2> SUFFICES ASSUME NEW i \in 1 .. Len(u) PROVE (s \o t)[i] = u[i]
    OBVIOUS
  <2>1. u[i] = a + i
    BY <1>1, <1>4
  <2>2. CASE i <= Len(s)
    <3>1. (s \o t)[i] = s[i] /\ i \in 1 .. (b - a)
      BY <1>1, <2>2
    <3> QED BY <3>1, <2>1, <1>2
  <2>3. CASE i > Len(s)
    <3>1. i - Len(s) \in 1 .. (c - b) /\ b + (i - Len(s)) = a + i
      BY <1>1, <2>3
    <3>2. (s \o t)[i] = IF i <= Len(s) THEN s[i] ELSE t[i - Len(s)]
      <4>1. s \in Seq(Nat) /\ t \in Seq(Nat)
        BY <1>1
      <4>2. \A j \in 1 .. Len(s) + Len(t) :
              (s \o t)[j] = IF j <= Len(s) THEN s[j] ELSE t[j - Len(s)]
        BY <4>1, ConcatProperties
      <4>3. i \in 1 .. Len(s) + Len(t)
        BY <1>1
      <4> QED BY <4>2, <4>3
    <3>3. (s \o t)[i] = t[i - Len(s)]
      BY <1>1, <2>3, <3>2
    <3> QED BY <3>1, <3>3, <2>1, <1>3
  <2> QED BY <1>1, <2>2, <2>3
<1>7. s \o t = u
  BY <1>1, <1>5, <1>6, SeqEqual
<1> QED BY <1>7 DEF s, t, u

\* An empty run.
LEMMA RunEmpty ==
  ASSUME NEW d, NEW q \in Seq(Bufs), NEW a \in Nat
  PROVE  Run(d, q, Len(q), a, a)
<1> DEFINE e == [i \in Len(q) .. Len(q) |-> a]
<1>1. Len(q) \in Nat
  OBVIOUS
<1>2. e \in [Len(q) .. Len(q) -> Nat] /\ e[Len(q)] = a
  BY <1>1
<1>3. \A i, j \in Len(q) .. Len(q) : i <= j => e[i] <= e[j]
  BY <1>1
<1>4. Len(q) + 1 .. Len(q) = {}
  BY <1>1
<1> HIDE DEF e
<1> QED BY <1>2, <1>3, <1>4 DEF Run

\* The bounds of a run are in order, and equal when nothing is left of it.
LEMMA RunBounds ==
  ASSUME NEW d, NEW q \in Seq(Bufs), NEW w \in 0 .. Len(q),
         NEW a \in Nat, NEW b \in Nat, Run(d, q, w, a, b)
  PROVE  a <= b /\ (w = Len(q) => a = b)
BY DEF Run

\* A run is as long as its vector; a buffer with the next entries makes it longer.
LEMMA RunAppend ==
  ASSUME NEW d, NEW q \in Seq(Bufs), NEW w \in 0 .. Len(q), NEW c \in Bufs,
         NEW a \in Nat, NEW b \in Nat, NEW n \in Nat,
         Run(d, q, w, a, b), b <= n, d[c] = Interval(b, n)
  PROVE  Run(d, Append(q, c), w, a, n)
<1>1. PICK e \in [w .. Len(q) -> Nat] :
        /\ e[w] = a /\ e[Len(q)] = b
        /\ \A i, j \in w .. Len(q) : i <= j => e[i] <= e[j]
        /\ \A i \in w + 1 .. Len(q) : d[q[i]] = Interval(e[i - 1], e[i])
  BY DEF Run
<1> DEFINE r == Append(q, c)
           f == [i \in w .. Len(r) |-> IF i <= Len(q) THEN e[i] ELSE n]
<1>2. Len(r) = Len(q) + 1 /\ Len(q) \in Nat
  OBVIOUS
<1>3. (\A i \in 1 .. Len(q) : r[i] = q[i]) /\ r[Len(q) + 1] = c
  OBVIOUS
<1>4. f \in [w .. Len(r) -> Nat] /\ f[w] = a /\ f[Len(r)] = n /\ f[Len(q)] = b
  BY <1>1, <1>2
<1>5. \A i \in w .. Len(q) : f[i] = e[i] /\ e[i] <= b
  BY <1>1, <1>2
<1> HIDE DEF r, f
<1>6. \A i, j \in w .. Len(r) : i <= j => f[i] <= f[j]
  <2> SUFFICES ASSUME NEW i \in w .. Len(r), NEW j \in w .. Len(r), i <= j
               PROVE  f[i] <= f[j]
    OBVIOUS
  <2>1. CASE j # Len(r)
    <3>1. i \in w .. Len(q) /\ j \in w .. Len(q)
      BY <2>1, <1>2
    <3> QED BY <3>1, <1>1, <1>5
  <2>2. CASE j = Len(r) /\ i # Len(r)
    <3>1. i \in w .. Len(q)
      BY <2>2, <1>2
    <3>2. e[i] \in Nat /\ f[i] = e[i] /\ e[i] <= b
      BY <3>1, <1>5
    <3> QED BY <3>2, <2>2, <1>4
  <2>3. CASE j = Len(r) /\ i = Len(r)
    BY <2>3, <1>4
  <2> QED BY <2>1, <2>2, <2>3
<1>7. \A i \in w + 1 .. Len(r) : d[r[i]] = Interval(f[i - 1], f[i])
  <2> SUFFICES ASSUME NEW i \in w + 1 .. Len(r) PROVE d[r[i]] = Interval(f[i - 1], f[i])
    OBVIOUS
  <2>1. CASE i = Len(r)
    BY <2>1, <1>2, <1>3, <1>4
  <2>2. CASE i # Len(r)
    <3>1. i \in w + 1 .. Len(q) /\ i \in 1 .. Len(q) /\ i - 1 \in w .. Len(q) /\ i \in w .. Len(q)
      BY <2>2, <1>2
    <3>2. r[i] = q[i] /\ f[i] = e[i] /\ f[i - 1] = e[i - 1]
      BY <3>1, <1>3, <1>5
    <3> QED BY <3>1, <3>2, <1>1
  <2> QED BY <2>1, <2>2
<1>8. Run(d, r, w, a, n)
  BY <1>4, <1>6, <1>7 DEF Run
<1> QED BY <1>8 DEF r

\* The first buffer of a run, and the rest.
LEMMA RunStep ==
  ASSUME NEW d, NEW q \in Seq(Bufs), NEW w \in Nat, w < Len(q),
         NEW a \in Nat, NEW b \in Nat, Run(d, q, w, a, b)
  PROVE  \E m \in Nat : /\ a <= m /\ m <= b
                        /\ d[q[w + 1]] = Interval(a, m)
                        /\ Run(d, q, w + 1, m, b)
<1>1. PICK e \in [w .. Len(q) -> Nat] :
        /\ e[w] = a /\ e[Len(q)] = b
        /\ \A i, j \in w .. Len(q) : i <= j => e[i] <= e[j]
        /\ \A i \in w + 1 .. Len(q) : d[q[i]] = Interval(e[i - 1], e[i])
  BY DEF Run
<1> DEFINE f == [i \in w + 1 .. Len(q) |-> e[i]]
           m == e[w + 1]
<1>2. Len(q) \in Nat /\ w + 1 \in w .. Len(q) /\ w + 1 \in w + 1 .. Len(q) /\ (w + 1) - 1 = w
  OBVIOUS
<1>3. m \in Nat /\ a <= m /\ m <= b
  <2>1. w \in w .. Len(q) /\ Len(q) \in w .. Len(q)
    BY <1>2
  <2>2. e[w] <= e[w + 1] /\ e[w + 1] <= e[Len(q)]
    BY <1>1, <1>2, <2>1
  <2> QED BY <1>1, <1>2, <2>2
<1>4. d[q[w + 1]] = Interval(a, m)
  BY <1>1, <1>2
<1>5. /\ f \in [w + 1 .. Len(q) -> Nat] /\ f[w + 1] = m /\ f[Len(q)] = b
      /\ \A i \in w + 1 .. Len(q) : f[i] = e[i]
  BY <1>1, <1>2
<1>6. \A i, j \in w + 1 .. Len(q) : i <= j => f[i] <= f[j]
  BY <1>1, <1>2
<1>7. \A i \in (w + 1) + 1 .. Len(q) : d[q[i]] = Interval(f[i - 1], f[i])
  BY <1>1, <1>2
<1> HIDE DEF f, m
<1>8. Run(d, q, w + 1, m, b)
  BY <1>5, <1>6, <1>7 DEF Run
<1> QED BY <1>3, <1>4, <1>8

\* A run is not disturbed by what happens to other buffers.
LEMMA RunSame ==
  ASSUME NEW d, NEW d2, NEW q \in Seq(Bufs), NEW w \in 0 .. Len(q), NEW a, NEW b,
         Run(d, q, w, a, b), \A i \in 1 .. Len(q) : d2[q[i]] = d[q[i]]
  PROVE  Run(d2, q, w, a, b)
<1>1. PICK e \in [w .. Len(q) -> Nat] :
        /\ e[w] = a /\ e[Len(q)] = b
        /\ \A i, j \in w .. Len(q) : i <= j => e[i] <= e[j]
        /\ \A i \in w + 1 .. Len(q) : d[q[i]] = Interval(e[i - 1], e[i])
  BY DEF Run
<1>2. \A i \in w + 1 .. Len(q) : i \in 1 .. Len(q)
  OBVIOUS
<1>3. \A i \in w + 1 .. Len(q) : d2[q[i]] = Interval(e[i - 1], e[i])
  BY <1>1, <1>2
<1> QED BY <1>1, <1>3 DEF Run

-----------------------------------------------------------------------------
(* The buffers                                                             *)

LEMMA SeqWiden ==
  ASSUME NEW A, NEW B, A \subseteq B, NEW q \in Seq(A)
  PROVE  q \in Seq(B)
<1>1. Len(q) \in Nat /\ q \in [1 .. Len(q) -> A]
  BY LenProperties
<1>2. q \in [1 .. Len(q) -> B]
  BY <1>1
<1> QED BY <1>1, <1>2

LEMMA Appended ==
  ASSUME NEW q \in Seq(Bufs), NEW c \in Bufs
  PROVE  /\ Append(q, c) \in Seq(Bufs)
         /\ Len(q) \in Nat /\ Len(Append(q, c)) = Len(q) + 1
         /\ \A i \in 1 .. Len(q) : Append(q, c)[i] = q[i]
         /\ Append(q, c)[Len(q) + 1] = c
OBVIOUS

LEMMA BufNotNull ==
  /\ Null \notin Bufs
  /\ \A q \in Seq(Bufs) : \A i \in 1 .. Len(q) : q[i] \in Bufs /\ q[i] # Null
<1>1. Null \notin Bufs
  BY DEF Null, Bufs
<1>2. \A q \in Seq(Bufs) : \A i \in 1 .. Len(q) : q[i] \in Bufs
  BY ElementOfSeq
<1> QED BY <1>1, <1>2

LEMMA AppendDistinct ==
  ASSUME NEW q \in Seq(Bufs), NEW c \in Bufs, Distinct(q), \A i \in 1 .. Len(q) : q[i] # c
  PROVE  Distinct(Append(q, c))
<1> DEFINE r == Append(q, c)
<1>1. /\ Len(q) \in Nat /\ Len(r) = Len(q) + 1 /\ r[Len(q) + 1] = c
      /\ \A i \in 1 .. Len(q) : r[i] = q[i]
  BY Appended
<1> HIDE DEF r
<1>2. Distinct(r)
  <2> SUFFICES ASSUME NEW i \in 1 .. Len(r), NEW j \in 1 .. Len(r), r[i] = r[j]
               PROVE  i = j
    BY DEF Distinct
  <2>1. CASE i \in 1 .. Len(q) /\ j \in 1 .. Len(q)
    BY <1>1, <2>1 DEF Distinct
  <2>2. CASE i = Len(q) + 1 /\ j \in 1 .. Len(q)
    BY <1>1, <2>2
  <2>3. CASE j = Len(q) + 1 /\ i \in 1 .. Len(q)
    BY <1>1, <2>3
  <2>4. CASE i = Len(q) + 1 /\ j = Len(q) + 1
    BY <2>4
  <2> QED BY <1>1, <2>1, <2>2, <2>3, <2>4
<1>3. r = Append(q, c)
  BY DEF r
<1> QED BY <1>2, <1>3

LEMMA InUseIs ==
  ASSUME bufVec \in Seq(Bufs), toWrite \in Seq(Bufs), NEW c, c \notin InUse
  PROVE  /\ c # curBuf /\ c # nextBuf /\ c # spare1 /\ c # spare2
         /\ \A i \in 1 .. Len(bufVec) : bufVec[i] # c
         /\ \A i \in 1 .. Len(toWrite) : toWrite[i] # c
BY DEF InUse, ToSet

\* What becomes the current buffer was not in use, or was the spare one.
LEMMA UsedBuf ==
  ASSUME LogType, Apart, UseBuf
  PROVE  /\ curBuf' \in Bufs /\ curBuf' # curBuf /\ curBuf' # spare1 /\ curBuf' # spare2
         /\ nextBuf' \in {nextBuf, Null} /\ nextBuf' # curBuf'
         /\ \A i \in 1 .. Len(bufVec) : bufVec[i] # curBuf'
         /\ \A i \in 1 .. Len(toWrite) : toWrite[i] # curBuf'
<1>1. CASE UseNextBuf
  BY <1>1 DEF UseNextBuf, LogType, Apart, Null, Bufs
<1>2. CASE UseNewBuf
  <2>1. curBuf' \in Bufs /\ curBuf' \notin InUse
    BY <1>2 DEF UseNewBuf, Fresh
  <2>2. nextBuf' = nextBuf
    BY <1>2 DEF UseNewBuf
  <2> QED BY <2>1, <2>2, InUseIs DEF LogType
<1> QED BY <1>1, <1>2 DEF UseBuf

LEMMA AppendEntryBuffers ==
  ASSUME LogType, Buffers, AppendEntry
  PROVE  LogType' /\ Buffers'
<1>1. /\ front = "run" /\ appended' = appended + 1 /\ appended' \in Nat
      /\ UNCHANGED <<running, front, spare1, spare2, toWrite, written, pc, file>>
  BY DEF AppendEntry, writerVars, LogType
<1>2. pc \notin {"final", "rest", "end"} /\ Apart
  BY <1>1 DEF Buffers, Ends
<1>3. data' \in [Bufs -> Seq(Nat)]
  <2>1. \A b \in Bufs : Append(data[b], appended') \in Seq(Nat) /\ data[b] \in Seq(Nat)
    BY <1>1 DEF LogType
  <2>2. <<>> \in Seq(Nat)
    OBVIOUS
  <2> QED BY <2>1, <2>2 DEF AppendEntry
<1>4. CASE UNCHANGED <<curBuf, nextBuf, bufVec>>
  <2>1. LogType'
    BY <1>1, <1>3, <1>4 DEF LogType
  <2>2. Places' /\ Ends' /\ Apart'
    BY <1>1, <1>2, <1>4 DEF Buffers, Places, Ends, Apart, Distinct
  <2> QED BY <2>1, <2>2 DEF Buffers
<1>5. CASE bufVec' = Append(bufVec, curBuf) /\ UseBuf
  <2>1. /\ curBuf' \in Bufs /\ curBuf' # curBuf /\ curBuf' # spare1 /\ curBuf' # spare2
        /\ nextBuf' \in {nextBuf, Null} /\ nextBuf' # curBuf'
        /\ \A i \in 1 .. Len(bufVec) : bufVec[i] # curBuf'
        /\ \A i \in 1 .. Len(toWrite) : toWrite[i] # curBuf'
    BY <1>2, <1>5, UsedBuf
  <2>2. bufVec \in Seq(Bufs) /\ curBuf \in Bufs
    BY DEF LogType
  <2>3. /\ bufVec' \in Seq(Bufs) /\ Len(bufVec) \in Nat /\ Len(bufVec') = Len(bufVec) + 1
        /\ bufVec'[Len(bufVec) + 1] = curBuf
        /\ \A i \in 1 .. Len(bufVec) : bufVec'[i] = bufVec[i]
    BY <1>5, <2>2, Appended
  <2>4. Distinct(bufVec')
    <3>1. Distinct(bufVec) /\ \A i \in 1 .. Len(bufVec) : bufVec[i] # curBuf
      BY <1>2 DEF Apart
    <3>2. Distinct(Append(bufVec, curBuf))
      BY <2>2, <3>1, AppendDistinct
    <3> QED BY <1>5, <3>2
  <2>5. \A i \in 1 .. Len(bufVec') :
          bufVec'[i] = curBuf \/ \E j \in 1 .. Len(bufVec) : bufVec'[i] = bufVec[j]
    BY <2>3
  <2>6. LogType'
    BY <1>1, <1>2, <1>3, <2>1, <2>3 DEF LogType
  <2>7. Apart'
    <3>1. Distinct(bufVec') /\ Distinct(toWrite')
      BY <1>1, <1>2, <2>4 DEF Apart, Distinct
    <3>2. \A i \in 1 .. Len(bufVec') : \A j \in 1 .. Len(toWrite') : bufVec'[i] # toWrite'[j]
      BY <1>1, <1>2, <2>5 DEF Apart
    <3>3. \A b \in {nextBuf', spare1', spare2'} : b # curBuf'
      BY <1>1, <2>1
    <3>4. /\ nextBuf' # Null => nextBuf' # spare1' /\ nextBuf' # spare2'
          /\ spare1' # Null => spare1' # spare2'
      BY <1>1, <1>2, <2>1 DEF Apart
    <3>5. \A b \in {nextBuf', spare1', spare2', curBuf'} :
            \A i \in 1 .. Len(toWrite') : toWrite'[i] # b
      <4>1. \A i \in 1 .. Len(toWrite) : toWrite[i] # Null
        BY BufNotNull DEF LogType
      <4> QED BY <1>1, <1>2, <2>1, <4>1 DEF Apart
    <3>6. \A b \in {nextBuf', spare1', spare2', curBuf'} :
            \A i \in 1 .. Len(bufVec') : bufVec'[i] # b
      <4>1. \A i \in 1 .. Len(bufVec) : bufVec[i] # Null /\ curBuf # Null
        BY <2>2, BufNotNull
      <4>2. \A b \in {nextBuf', spare1', spare2', curBuf'} :
              /\ \A j \in 1 .. Len(bufVec) : bufVec[j] # b
              /\ b # curBuf
        BY <1>1, <1>2, <2>1, <2>2, <4>1 DEF Apart, Bufs, Null
      <4> QED BY <2>5, <4>2
    <3> QED BY <3>1, <3>2, <3>3, <3>4, <3>5, <3>6 DEF Apart
  <2>8. Places'
    BY <1>1, <1>2, <2>1, <2>3 DEF Buffers, Places
  <2> QED BY <1>1, <2>6, <2>7, <2>8 DEF Buffers, Ends
<1> QED BY <1>4, <1>5 DEF AppendEntry

LEMMA WakeBuffers ==
  ASSUME LogType, Buffers, Wake
  PROVE  LogType' /\ Buffers'
<1>1. /\ pc = "wait" /\ pc' = "io" /\ toWrite' = Append(bufVec, curBuf) /\ bufVec' = <<>>
      /\ curBuf' = spare1 /\ spare1' = Null
      /\ UNCHANGED <<data, running, front, appended, written, file>>
  BY DEF Wake, frontVars
<1>2. /\ Apart /\ spare1 # Null /\ spare2 # Null /\ written = 0
      /\ nextBuf = Null => Len(bufVec) >= 1
  BY <1>1 DEF Buffers, Places
<1>3. \/ nextBuf = Null /\ nextBuf' = spare2 /\ spare2' = Null
      \/ nextBuf # Null /\ nextBuf' = nextBuf /\ spare2' = spare2
  BY DEF Wake
<1>4. bufVec \in Seq(Bufs) /\ curBuf \in Bufs /\ spare1 \in Bufs /\ spare2 \in Bufs
  BY <1>2 DEF LogType
<1>5. /\ toWrite' \in Seq(Bufs) /\ Len(bufVec) \in Nat /\ Len(toWrite') = Len(bufVec) + 1
      /\ toWrite'[Len(bufVec) + 1] = curBuf
      /\ \A i \in 1 .. Len(bufVec) : toWrite'[i] = bufVec[i]
  BY <1>1, <1>4, Appended
<1>6. Distinct(toWrite')
  <2>1. Distinct(bufVec) /\ \A i \in 1 .. Len(bufVec) : bufVec[i] # curBuf
    BY <1>2 DEF Apart
  <2>2. Distinct(Append(bufVec, curBuf))
    BY <1>4, <2>1, AppendDistinct
  <2> QED BY <1>1, <2>2
<1>7. bufVec' \in Seq(Bufs) /\ Len(bufVec') = 0
  BY <1>1
<1>8. LogType'
  <2>1. {nextBuf', spare1', spare2'} \subseteq Bufs \cup {Null}
    BY <1>1, <1>3, <1>4 DEF LogType
  <2>2. written' \in 0 .. Len(toWrite')
    BY <1>1, <1>2, <1>5
  <2> QED BY <1>1, <1>4, <1>5, <1>7, <2>1, <2>2 DEF LogType
<1>9. Apart'
  <2>1. Distinct(bufVec') /\ \A i \in 1 .. Len(bufVec') : FALSE
    BY <1>7 DEF Distinct
  <2>2. \A b \in {nextBuf', spare1', spare2'} : b # curBuf'
    BY <1>1, <1>2, <1>3, <1>4, BufNotNull DEF Apart
  <2>3. /\ nextBuf' # Null => nextBuf' # spare1' /\ nextBuf' # spare2'
        /\ spare1' # Null => spare1' # spare2'
    BY <1>1, <1>2, <1>3, <1>4, BufNotNull DEF Apart
  <2>4. \A b \in {nextBuf', spare1', spare2', curBuf'} :
          \A i \in 1 .. Len(toWrite') : toWrite'[i] # b
    <3>1. \A b \in {nextBuf', spare1', spare2', curBuf'} :
            b = Null \/ b \in {nextBuf, spare1, spare2}
      BY <1>1, <1>3
    <3>2. \A b \in {nextBuf, spare1, spare2, Null} :
            b # curBuf /\ \A i \in 1 .. Len(bufVec) : bufVec[i] # b
      BY <1>2, <1>4, BufNotNull DEF Apart
    <3> QED BY <1>5, <3>1, <3>2
  <2> QED BY <1>6, <2>1, <2>2, <2>3, <2>4 DEF Apart
<1>10. Places'
  BY <1>1, <1>2, <1>3, <1>4, <1>5, BufNotNull DEF Places
<1>11. Ends'
  BY <1>1 DEF Buffers, Ends
<1> QED BY <1>8, <1>9, <1>10, <1>11 DEF Buffers

\* Recycle finds the buffers it takes, and takes two of them.
LEMMA RecycleBuffers ==
  ASSUME LogType, Buffers, Recycle
  PROVE  LogType' /\ Buffers'
<1>1. /\ pc = "recycle" /\ pc' = "check" /\ toWrite' = <<>> /\ written' = 0
      /\ spare1' = IF spare1 = Null THEN toWrite[1] ELSE spare1
      /\ spare2' = IF spare2 = Null THEN toWrite[2] ELSE spare2
      /\ UNCHANGED <<curBuf, nextBuf, bufVec, running, front, appended, file>>
  BY DEF Recycle, frontVars
<1>2. /\ Apart /\ Len(toWrite) >= 1 /\ (spare2 = Null => Len(toWrite) >= 2)
      /\ nextBuf = Null => Len(bufVec) >= 1
  BY <1>1 DEF Buffers, Places
<1>3. /\ toWrite \in Seq(Bufs) /\ Len(toWrite) \in Nat
      /\ toWrite[1] \in Bufs /\ (spare2 = Null => toWrite[2] \in Bufs)
  <2>1. toWrite \in Seq(Bufs) /\ Len(toWrite) \in Nat
    BY LenProperties DEF LogType
  <2>2. 1 \in 1 .. Len(toWrite) /\ (spare2 = Null => 2 \in 1 .. Len(toWrite))
    BY <1>2, <2>1
  <2> QED BY <2>1, <2>2, BufNotNull
<1>4. spare1' \in Bufs /\ spare2' \in Bufs
  BY <1>1, <1>3 DEF LogType
<1>5. data' \in [Bufs -> Seq(Nat)]
  <2>1. <<>> \in Seq(Nat) /\ \A b \in Bufs : data[b] \in Seq(Nat)
    BY DEF LogType
  <2> QED BY <2>1 DEF Recycle
<1>6. toWrite' \in Seq(Bufs) /\ Len(toWrite') = 0
  BY <1>1
<1>7. LogType'
  <2>1. written' \in 0 .. Len(toWrite') /\ nextBuf' \in Bufs \cup {Null}
    BY <1>1, <1>6 DEF LogType
  <2> QED BY <1>1, <1>4, <1>5, <1>6, <2>1 DEF LogType
<1>8. Apart'
  <2>1. Distinct(toWrite') /\ \A i \in 1 .. Len(toWrite') : FALSE
    BY <1>6 DEF Distinct
  <2>2. \A b \in {spare1', spare2'} :
          /\ b # curBuf /\ (nextBuf # Null => b # nextBuf)
          /\ \A i \in 1 .. Len(bufVec) : bufVec[i] # b
    <3>1. /\ 1 \in 1 .. Len(toWrite)
          /\ spare2 = Null => 2 \in 1 .. Len(toWrite)
      BY <1>2, <1>3
    <3> QED BY <1>1, <1>2, <3>1 DEF Apart
  <2>3. spare1' # spare2'
    <3>1. /\ 1 \in 1 .. Len(toWrite)
          /\ spare2 = Null => 2 \in 1 .. Len(toWrite)
      BY <1>2, <1>3
    <3> QED BY <1>1, <1>2, <3>1 DEF Apart, Distinct
  <2>4. \A b \in {nextBuf', spare1', spare2', curBuf'} :
          \A i \in 1 .. Len(bufVec') : bufVec'[i] # b
    BY <1>1, <1>2, <2>2 DEF Apart
  <2>5. \A b \in {nextBuf', spare1', spare2'} : b # curBuf'
    BY <1>1, <1>2, <2>2 DEF Apart
  <2>6. Distinct(bufVec') /\ (nextBuf' # Null => nextBuf' # spare1' /\ nextBuf' # spare2')
    BY <1>1, <1>2, <2>2 DEF Apart, Distinct
  <2> QED BY <2>1, <2>3, <2>4, <2>5, <2>6 DEF Apart
<1>9. Places' /\ Ends'
  <2>1. Places'
    BY <1>1, <1>2, <1>4, BufNotNull DEF Places
  <2>2. Ends'
    BY <1>1 DEF Buffers, Ends
  <2> QED BY <2>1, <2>2
<1> QED BY <1>7, <1>8, <1>9 DEF Buffers

LEMMA WriteNextBuffers ==
  ASSUME LogType, Buffers, WriteBuf \/ WriteRest
  PROVE  LogType' /\ Buffers'
<1> DEFINE vec == IF pc = "rest" THEN bufVec ELSE toWrite
           done == IF pc = "rest" THEN "end" ELSE "recycle"
<1>1. /\ pc \in {"io", "rest"} /\ WriteNext(vec, done)
      /\ UNCHANGED <<data, curBuf, nextBuf, bufVec, running, front, appended,
                     spare1, spare2, toWrite>>
  BY DEF WriteBuf, WriteRest, bufVars, frontVars
<1>2. vec \in Seq(Bufs) /\ Len(vec) \in Nat /\ written \in Nat
  BY LenProperties DEF LogType
<1>3. /\ written < Len(vec) /\ written' = written + 1 /\ file' = file \o data[vec[written + 1]]
      /\ pc' = IF written' = Len(vec) THEN done ELSE pc
  BY <1>1 DEF WriteNext
<1>4. file' \in Seq(Nat)
  <2>1. written + 1 \in 1 .. Len(vec)
    BY <1>2, <1>3
  <2>2. vec[written + 1] \in Bufs
    BY <1>2, <2>1, BufNotNull
  <2>3. data[vec[written + 1]] \in Seq(Nat)
    BY <2>2 DEF LogType
  <2> QED BY <1>3, <2>3, ConcatProperties DEF LogType
<1>5. written' \in 0 .. Len(vec)
  BY <1>2, <1>3
<1>6. CASE pc = "rest"
  <2>1. vec = bufVec /\ pc' \in {"rest", "end"} /\ (pc' = "end" <=> written' = Len(vec))
    BY <1>3, <1>6
  <2>2. LogType'
    BY <1>1, <1>4, <1>5, <2>1 DEF LogType
  <2>3. Places' /\ Ends'
    BY <1>1, <1>2, <1>3, <1>6, <2>1 DEF Buffers, Places, Ends
  <2> QED BY <2>1, <2>2, <2>3 DEF Buffers
<1>7. CASE pc = "io"
  <2>1. vec = toWrite /\ pc' \in {"io", "recycle"} /\ (pc' = "recycle" <=> written' = Len(vec))
    BY <1>3, <1>7
  <2>2. LogType'
    BY <1>1, <1>4, <1>5, <2>1 DEF LogType
  <2>3. Places' /\ Ends'
    BY <1>1, <1>2, <1>3, <1>7, <2>1 DEF Buffers, Places, Ends
  <2>4. Apart'
    BY <1>1, <1>7 DEF Buffers, Apart, Distinct
  <2> QED BY <2>2, <2>3, <2>4 DEF Buffers
<1> QED BY <1>1, <1>6, <1>7

LEMMA FinalBuffers ==
  ASSUME LogType, Buffers, Final
  PROVE  LogType' /\ Buffers'
<1>1. /\ pc = "final" /\ pc' = "rest" /\ bufVec' = Append(bufVec, curBuf)
      /\ UNCHANGED <<data, curBuf, nextBuf, running, front, appended,
                     spare1, spare2, toWrite, written, file>>
  BY DEF Final, frontVars
<1>2. bufVec' \in Seq(Bufs) /\ Len(bufVec') = Len(bufVec) + 1 /\ Len(bufVec) \in Nat
  BY <1>1, Appended DEF LogType
<1>3. written = 0
  BY <1>1 DEF Buffers, Places
<1>4. LogType'
  BY <1>1, <1>2, <1>3 DEF LogType
<1>5. Places' /\ Ends'
  BY <1>1, <1>2, <1>3 DEF Buffers, Places, Ends
<1> QED BY <1>1, <1>4, <1>5 DEF Buffers

LEMMA BuffersStep ==
  ASSUME LogType, Buffers, [Next]_vars
  PROVE  LogType' /\ Buffers'
<1>1. CASE Stop
  <2>1. /\ front' = "join" /\ running' = FALSE /\ front = "run"
        /\ UNCHANGED <<data, curBuf, nextBuf, bufVec, appended,
                       spare1, spare2, toWrite, written, pc, file>>
    BY <1>1 DEF Stop, bufVars, writerVars
  <2>2. LogType'
    BY <2>1 DEF LogType
  <2>3. Places' /\ (Apart => Apart')
    BY <2>1 DEF Buffers, Places, Apart, Distinct
  <2>4. Ends'
    BY <2>1 DEF Buffers, Ends
  <2> QED BY <2>1, <2>2, <2>3, <2>4 DEF Buffers
<1>2. CASE Joined
  <2>1. /\ front' = "done" /\ front = "join" /\ pc = "end"
        /\ UNCHANGED <<data, curBuf, nextBuf, bufVec, running, appended,
                       spare1, spare2, toWrite, written, pc, file>>
    BY <1>2 DEF Joined, bufVars, writerVars
  <2> QED BY <2>1 DEF LogType, Buffers, Places, Ends
<1>3. CASE Check
  <2>1. /\ pc = "check" /\ pc' = IF running THEN "wait" ELSE "final"
        /\ UNCHANGED <<data, curBuf, nextBuf, bufVec, running, front, appended,
                       spare1, spare2, toWrite, written, file>>
    BY <1>3 DEF Check, bufVars, frontVars
  <2>2. LogType'
    BY <2>1 DEF LogType
  <2>3. Places' /\ (Apart => Apart')
    BY <2>1 DEF Buffers, Places, Apart, Distinct
  <2>4. Ends'
    BY <2>1 DEF Buffers, Ends, LogType
  <2> QED BY <2>1, <2>2, <2>3, <2>4 DEF Buffers
<1>4. CASE UNCHANGED vars
  BY <1>4 DEF vars, bufVars, frontVars, writerVars,
              LogType, Buffers, Places, Ends, Apart, Distinct
<1> QED BY <1>1, <1>2, <1>3, <1>4, AppendEntryBuffers, WakeBuffers, RecycleBuffers,
           WriteNextBuffers, FinalBuffers DEF Next, Writer

-----------------------------------------------------------------------------
(* The entries                                                             *)

\* The buffers that the writer, the front and the spare pointers hold are different
\* from the current one: an entry goes to the current one only.
LEMMA AppendEntryEntries ==
  ASSUME LogType, Buffers, Entries, AppendEntry
  PROVE  Entries'
<1>1. /\ front = "run" /\ appended' = appended + 1
      /\ UNCHANGED <<running, front, spare1, spare2, toWrite, written, pc, file>>
  BY DEF AppendEntry, writerVars
<1>2. pc \notin {"rest", "end"} /\ Apart /\ appended \in Nat
  BY <1>1 DEF Buffers, Ends, LogType
<1>3. PICK m \in Nat, n \in Nat :
        /\ Run(data, toWrite, written, Len(file), m)
        /\ Run(data, bufVec, 0, m, n)
        /\ n <= appended /\ data[curBuf] = Interval(n, appended)
  BY <1>2 DEF Entries
<1>4. /\ bufVec \in Seq(Bufs) /\ toWrite \in Seq(Bufs) /\ curBuf \in Bufs
      /\ written \in 0 .. Len(toWrite) /\ Len(file) \in Nat
      /\ 0 \in 0 .. Len(bufVec)
  BY <1>2, LenProperties DEF LogType
<1>5. data'[curBuf] = Interval(n, appended')
  <2>1. data'[curBuf] = Append(data[curBuf], appended')
    BY <1>4 DEF AppendEntry
  <2> QED BY <1>1, <1>2, <1>3, <2>1, IntervalAppend
<1>6. \A b \in Bufs : b # curBuf /\ b \in InUse => data'[b] = data[b]
  BY DEF AppendEntry
<1>7. \A b \in Bufs : b \notin InUse => data'[b] = <<>>
  BY DEF AppendEntry, InUse
<1>8. \A i \in 1 .. Len(bufVec) : data'[bufVec[i]] = data[bufVec[i]]
  <2> SUFFICES ASSUME NEW i \in 1 .. Len(bufVec) PROVE data'[bufVec[i]] = data[bufVec[i]]
    OBVIOUS
  <2>1. bufVec[i] \in Bufs /\ bufVec[i] # curBuf
    BY <1>2, <1>4, BufNotNull DEF Apart
  <2>2. bufVec[i] \in InUse
    BY <1>4 DEF InUse, ToSet
  <2> QED BY <1>6, <2>1, <2>2
<1>9. \A i \in 1 .. Len(toWrite) : data'[toWrite[i]] = data[toWrite[i]]
  <2> SUFFICES ASSUME NEW i \in 1 .. Len(toWrite) PROVE data'[toWrite[i]] = data[toWrite[i]]
    OBVIOUS
  <2>1. toWrite[i] \in Bufs /\ toWrite[i] # curBuf
    BY <1>2, <1>4, BufNotNull DEF Apart
  <2>2. toWrite[i] \in InUse
    BY <1>4 DEF InUse, ToSet
  <2> QED BY <1>6, <2>1, <2>2
<1>10. Run(data', toWrite', written', Len(file'), m)
  <2>1. Run(data', toWrite, written, Len(file), m)
    BY <1>3, <1>4, <1>9, RunSame
  <2> QED BY <1>1, <2>1
<1>11. Run(data', bufVec, 0, m, n)
  BY <1>3, <1>4, <1>8, RunSame
<1>12. \A b \in {nextBuf, spare1, spare2} \ {Null} : data'[b] = <<>>
  <2> SUFFICES ASSUME NEW b \in {nextBuf, spare1, spare2} \ {Null} PROVE data'[b] = <<>>
    OBVIOUS
  <2>1. b \in Bufs /\ b # curBuf /\ b \in InUse
    BY <1>2 DEF Apart, LogType, InUse
  <2>2. data[b] = <<>>
    BY <1>2 DEF Entries
  <2> QED BY <1>6, <2>1, <2>2
<1>13. file' = Interval(0, Len(file')) /\ Len(file') <= appended'
  BY <1>1, <1>2, <1>4 DEF Entries
<1>14. CASE UNCHANGED <<curBuf, nextBuf, bufVec>>
  <2>1. n <= appended' /\ data'[curBuf'] = Interval(n, appended')
    BY <1>1, <1>2, <1>3, <1>5, <1>14
  <2>2. Run(data', bufVec', 0, m, n)
    BY <1>11, <1>14
  <2>3. \A b \in {nextBuf', spare1', spare2'} \ {Null} : data'[b] = <<>>
    BY <1>1, <1>12, <1>14
  <2> QED BY <1>1, <1>2, <1>10, <1>13, <2>1, <2>2, <2>3 DEF Entries
<1>15. CASE bufVec' = Append(bufVec, curBuf) /\ UseBuf
  <2>1. /\ curBuf' \in Bufs
        /\ nextBuf' \in {nextBuf, Null}
    BY <1>2, <1>15, UsedBuf
  <2>2. data'[curBuf'] = <<>>
    <3>1. CASE UseNextBuf
      BY <1>12, <3>1 DEF UseNextBuf
    <3>2. CASE UseNewBuf
      BY <1>7, <3>2 DEF UseNewBuf, Fresh
    <3> QED BY <1>15, <3>1, <3>2 DEF UseBuf
  <2>3. appended' \in Nat /\ n <= appended'
    BY <1>1, <1>2, <1>3
  <2>4. data'[curBuf'] = Interval(appended', appended')
    BY <2>2, <2>3, IntervalSeq
  <2>5. Run(data', bufVec', 0, m, appended')
    BY <1>4, <1>5, <1>11, <1>15, <2>3, RunAppend
  <2>6. \A b \in {nextBuf', spare1', spare2'} \ {Null} : data'[b] = <<>>
    BY <1>1, <1>12, <2>1
  <2> QED BY <1>1, <1>2, <1>10, <1>13, <2>3, <2>4, <2>5, <2>6 DEF Entries
<1> QED BY <1>14, <1>15 DEF AppendEntry

LEMMA WakeEntries ==
  ASSUME LogType, Buffers, Entries, Wake
  PROVE  Entries'
<1>1. /\ pc = "wait" /\ pc' = "io" /\ toWrite' = Append(bufVec, curBuf) /\ bufVec' = <<>>
      /\ curBuf' = spare1 /\ spare1' = Null
      /\ nextBuf' \in {nextBuf, spare2} /\ spare2' \in {spare2, Null}
      /\ UNCHANGED <<data, appended, written, file>>
  BY DEF Wake, frontVars
<1>2. toWrite = <<>> /\ spare1 # Null /\ spare2 # Null /\ written = 0
  BY <1>1 DEF Buffers, Places
<1>3. PICK m \in Nat, n \in Nat :
        /\ Run(data, toWrite, written, Len(file), m)
        /\ Run(data, bufVec, 0, m, n)
        /\ n <= appended /\ data[curBuf] = Interval(n, appended)
  BY <1>1 DEF Entries
<1>4. /\ bufVec \in Seq(Bufs) /\ toWrite \in Seq(Bufs) /\ curBuf \in Bufs
      /\ written \in 0 .. Len(toWrite) /\ written = Len(toWrite)
      /\ 0 \in 0 .. Len(bufVec) /\ Len(file) \in Nat /\ appended \in Nat
  BY <1>1, <1>2, LenProperties DEF LogType
<1>5. m = Len(file)
  BY <1>3, <1>4, RunBounds
<1>6. Run(data, Append(bufVec, curBuf), 0, Len(file), appended)
  <2>1. Run(data, bufVec, 0, Len(file), n)
    BY <1>3, <1>5
  <2> QED BY <1>3, <1>4, <2>1, RunAppend
<1>7. Run(data', toWrite', written', Len(file'), appended)
  BY <1>1, <1>2, <1>6
<1>8. Run(data', bufVec', 0, appended, appended)
  <2>1. <<>> \in Seq(Bufs) /\ Len(<<>>) = 0
    OBVIOUS
  <2>2. Run(data, <<>>, Len(<<>>), appended, appended)
    BY <1>4, <2>1, RunEmpty
  <2> QED BY <1>1, <2>1, <2>2
<1>9. data'[curBuf'] = Interval(appended, appended')
  <2>1. data[spare1] = <<>>
    BY <1>1, <1>2 DEF Entries
  <2>2. Interval(appended, appended) = <<>>
    BY <1>4, IntervalSeq
  <2> QED BY <1>1, <2>1, <2>2
<1>10. \A b \in {nextBuf', spare1', spare2'} \ {Null} : data'[b] = <<>>
  BY <1>1 DEF Entries
<1>11. file' = Interval(0, Len(file')) /\ Len(file') <= appended' /\ appended <= appended'
  BY <1>1, <1>4 DEF Entries
<1> QED BY <1>1, <1>4, <1>7, <1>8, <1>9, <1>10, <1>11 DEF Entries

LEMMA RecycleEntries ==
  ASSUME LogType, Buffers, Entries, Recycle
  PROVE  Entries'
<1>1. /\ pc = "recycle" /\ pc' = "check" /\ toWrite' = <<>> /\ written' = 0
      /\ spare1' = IF spare1 = Null THEN toWrite[1] ELSE spare1
      /\ spare2' = IF spare2 = Null THEN toWrite[2] ELSE spare2
      /\ UNCHANGED <<curBuf, nextBuf, bufVec, appended, file>>
  BY DEF Recycle, frontVars
<1>2. /\ Apart /\ written = Len(toWrite)
      /\ Len(toWrite) >= 1 /\ (spare2 = Null => Len(toWrite) >= 2)
  BY <1>1 DEF Buffers, Places
<1>3. PICK m \in Nat, n \in Nat :
        /\ Run(data, toWrite, written, Len(file), m)
        /\ Run(data, bufVec, 0, m, n)
        /\ n <= appended /\ data[curBuf] = Interval(n, appended)
  BY <1>1 DEF Entries
<1>4. /\ bufVec \in Seq(Bufs) /\ toWrite \in Seq(Bufs) /\ curBuf \in Bufs
      /\ written \in 0 .. Len(toWrite) /\ Len(toWrite) \in Nat
      /\ 0 \in 0 .. Len(bufVec) /\ Len(file) \in Nat /\ appended \in Nat
  BY <1>1, LenProperties DEF LogType
<1>5. m = Len(file)
  BY <1>2, <1>3, <1>4, RunBounds
<1>6. /\ 1 \in 1 .. Len(toWrite)
      /\ spare2 = Null => 2 \in 1 .. Len(toWrite)
  BY <1>2, <1>4
<1>7. \A b \in Bufs : /\ data'[b] \in {data[b], <<>>}
                      /\ (\A i \in 1 .. Len(toWrite) : toWrite[i] # b) => data'[b] = data[b]
  BY <1>6 DEF Recycle
<1>8. /\ spare1 = Null => data'[toWrite[1]] = <<>>
      /\ spare2 = Null => data'[toWrite[2]] = <<>>
  BY <1>4, <1>6, BufNotNull DEF Recycle
<1>9. Run(data', bufVec', 0, Len(file'), n)
  <2>1. \A i \in 1 .. Len(bufVec) : data'[bufVec[i]] = data[bufVec[i]]
    BY <1>2, <1>4, <1>7, BufNotNull DEF Apart
  <2>2. Run(data, bufVec, 0, Len(file), n)
    BY <1>3, <1>5
  <2>3. Run(data', bufVec, 0, Len(file), n)
    BY <1>4, <2>1, <2>2, RunSame
  <2> QED BY <1>1, <2>3
<1>10. Run(data', toWrite', written', Len(file'), Len(file'))
  <2>1. <<>> \in Seq(Bufs) /\ Len(<<>>) = 0
    OBVIOUS
  <2>2. Run(data', <<>>, Len(<<>>), Len(file), Len(file))
    BY <1>4, <2>1, RunEmpty
  <2> QED BY <1>1, <2>1, <2>2
<1>11. data'[curBuf'] = Interval(n, appended')
  BY <1>1, <1>2, <1>3, <1>4, <1>7 DEF Apart
<1>12. \A b \in {nextBuf', spare1', spare2'} \ {Null} : data'[b] = <<>>
  <2>1. \A b \in {nextBuf, spare1, spare2} \ {Null} : data'[b] = <<>>
    BY <1>1, <1>7 DEF Entries, LogType
  <2> QED BY <1>1, <1>8, <2>1
<1>13. file' = Interval(0, Len(file')) /\ Len(file') <= appended' /\ n <= appended'
  BY <1>1, <1>3 DEF Entries
<1>14. Len(file') \in Nat
  BY <1>1, <1>4
<1> QED BY <1>1, <1>9, <1>10, <1>11, <1>12, <1>13, <1>14 DEF Entries

\* What the writer adds to the file is what comes next.
LEMMA WriteNextEntries ==
  ASSUME LogType, Entries, NEW vec \in Seq(Bufs), NEW done, NEW z \in Nat,
         WriteNext(vec, done), written \in Nat, Run(data, vec, written, Len(file), z)
  PROVE  /\ file' = Interval(0, Len(file')) /\ Len(file') \in Nat /\ Len(file') <= z
         /\ Run(data, vec, written', Len(file'), z)
<1>1. written < Len(vec) /\ written' = written + 1 /\ file' = file \o data[vec[written + 1]]
  BY DEF WriteNext
<1>2. Len(file) \in Nat /\ file = Interval(0, Len(file))
  BY LenProperties DEF LogType, Entries
<1>3. PICK m \in Nat : /\ Len(file) <= m /\ m <= z
                       /\ data[vec[written + 1]] = Interval(Len(file), m)
                       /\ Run(data, vec, written + 1, m, z)
  BY <1>1, <1>2, RunStep
<1>4. file' = Interval(0, m)
  <2>1. 0 \in Nat /\ 0 <= Len(file)
    BY <1>2
  <2>2. Interval(0, Len(file)) \o Interval(Len(file), m) = Interval(0, m)
    BY <1>2, <1>3, <2>1, IntervalConcat
  <2> QED BY <1>1, <1>2, <1>3, <2>2
<1>5. Len(file') = m
  <2>1. 0 \in Nat /\ 0 <= m
    BY <1>3
  <2>2. Len(Interval(0, m)) = m - 0
    BY <1>3, <2>1, IntervalSeq
  <2> QED BY <1>3, <1>4, <2>2
<1> QED BY <1>1, <1>3, <1>4, <1>5

LEMMA WriteGrows ==
  ASSUME LogType, WriteBuf \/ WriteRest
  PROVE  Len(file) <= Len(file')
<1>1. PICK vec \in Seq(Bufs), done \in {"recycle", "end"} : WriteNext(vec, done)
  BY DEF LogType, WriteBuf, WriteRest
<1>2. Len(vec) \in Nat /\ written \in Nat
  BY LenProperties DEF LogType
<1>3. written < Len(vec) /\ file' = file \o data[vec[written + 1]]
  BY <1>1 DEF WriteNext
<1>4. written + 1 \in 1 .. Len(vec)
  BY <1>2, <1>3
<1>5. vec[written + 1] \in Bufs
  BY <1>4, BufNotNull
<1>6. file \in Seq(Nat) /\ data[vec[written + 1]] \in Seq(Nat)
  BY <1>5 DEF LogType
<1> QED BY <1>3, <1>6, ConcatProperties, LenProperties

LEMMA WriteBufEntries ==
  ASSUME LogType, Buffers, Entries, WriteBuf
  PROVE  Entries'
<1>1. /\ pc = "io" /\ WriteNext(toWrite, "recycle")
      /\ UNCHANGED <<data, curBuf, nextBuf, bufVec, appended, spare1, spare2, toWrite>>
  BY DEF WriteBuf, bufVars, frontVars
<1>2. PICK m \in Nat, n \in Nat :
        /\ Run(data, toWrite, written, Len(file), m)
        /\ Run(data, bufVec, 0, m, n)
        /\ n <= appended /\ data[curBuf] = Interval(n, appended)
  BY <1>1 DEF Entries
<1>3. /\ toWrite \in Seq(Bufs) /\ bufVec \in Seq(Bufs) /\ written \in Nat /\ appended \in Nat
      /\ 0 \in 0 .. Len(bufVec)
  BY LenProperties DEF LogType
<1>4. /\ file' = Interval(0, Len(file')) /\ Len(file') \in Nat /\ Len(file') <= m
      /\ Run(data, toWrite, written', Len(file'), m)
  BY <1>1, <1>2, <1>3, WriteNextEntries
<1>5. m <= n
  BY <1>2, <1>3, RunBounds
<1>6. pc' \notin {"rest", "end"}
  BY <1>1 DEF WriteNext
<1>7. Len(file') <= appended'
  BY <1>1, <1>2, <1>3, <1>4, <1>5
<1>8. \A b \in {nextBuf', spare1', spare2'} \ {Null} : data'[b] = <<>>
  BY <1>1 DEF Entries
<1>9. /\ Run(data', toWrite', written', Len(file'), m)
      /\ Run(data', bufVec', 0, m, n)
      /\ n <= appended' /\ data'[curBuf'] = Interval(n, appended')
  BY <1>1, <1>2, <1>4
<1> QED BY <1>4, <1>6, <1>7, <1>8, <1>9 DEF Entries

LEMMA WriteRestEntries ==
  ASSUME LogType, Buffers, Entries, WriteRest
  PROVE  Entries'
<1>1. /\ pc = "rest" /\ WriteNext(bufVec, "end")
      /\ UNCHANGED <<data, bufVec, appended>>
  BY DEF WriteRest, bufVars, frontVars
<1>2. bufVec \in Seq(Bufs) /\ written \in Nat /\ appended \in Nat
  BY LenProperties DEF LogType
<1>3. Run(data, bufVec, written, Len(file), appended)
  BY <1>1 DEF Entries
<1>4. /\ file' = Interval(0, Len(file')) /\ Len(file') <= appended
      /\ Run(data, bufVec, written', Len(file'), appended)
  BY <1>1, <1>2, <1>3, WriteNextEntries
<1>5. pc' \in {"rest", "end"}
  BY <1>1 DEF WriteNext
<1> QED BY <1>1, <1>4, <1>5 DEF Entries

LEMMA FinalEntries ==
  ASSUME LogType, Buffers, Entries, Final
  PROVE  Entries'
<1>1. /\ pc = "final" /\ pc' = "rest" /\ bufVec' = Append(bufVec, curBuf)
      /\ UNCHANGED <<data, curBuf, appended, toWrite, written, file>>
  BY DEF Final, frontVars
<1>2. toWrite = <<>> /\ written = 0
  BY <1>1 DEF Buffers, Places
<1>3. PICK m \in Nat, n \in Nat :
        /\ Run(data, toWrite, written, Len(file), m)
        /\ Run(data, bufVec, 0, m, n)
        /\ n <= appended /\ data[curBuf] = Interval(n, appended)
  BY <1>1 DEF Entries
<1>4. /\ toWrite \in Seq(Bufs) /\ bufVec \in Seq(Bufs) /\ curBuf \in Bufs
      /\ written \in 0 .. Len(toWrite) /\ written = Len(toWrite)
      /\ 0 \in 0 .. Len(bufVec) /\ appended \in Nat /\ Len(file) \in Nat
  BY <1>1, <1>2, LenProperties DEF LogType
<1>5. m = Len(file)
  BY <1>3, <1>4, RunBounds
<1>6. Run(data, bufVec, 0, Len(file), n)
  BY <1>3, <1>5
<1>7. Run(data, Append(bufVec, curBuf), 0, Len(file), appended)
  BY <1>3, <1>4, <1>6, RunAppend
<1>8. Run(data', bufVec', written', Len(file'), appended')
  BY <1>1, <1>2, <1>7
<1>9. file' = Interval(0, Len(file')) /\ Len(file') <= appended'
  BY <1>1 DEF Entries
<1> QED BY <1>1, <1>8, <1>9 DEF Entries

LEMMA EntriesStep ==
  ASSUME LogType, Buffers, Entries, [Next]_vars
  PROVE  Entries'
<1>1. CASE Stop \/ Joined \/ UNCHANGED vars
  <2>1. UNCHANGED <<data, curBuf, nextBuf, bufVec, spare1, spare2, toWrite, written,
                    pc, appended, file>>
    BY <1>1 DEF Stop, Joined, vars, bufVars, frontVars, writerVars
  <2> QED BY <2>1 DEF Entries
<1>2. CASE Check
  <2>1. /\ pc \notin {"rest", "end"} /\ pc' \notin {"rest", "end"}
        /\ UNCHANGED <<data, curBuf, nextBuf, bufVec, spare1, spare2, toWrite, written,
                       appended, file>>
    BY <1>2 DEF Check, bufVars, frontVars
  <2> QED BY <2>1 DEF Entries
<1> QED BY <1>1, <1>2, AppendEntryEntries, WakeEntries, RecycleEntries, WriteBufEntries,
           WriteRestEntries, FinalEntries DEF Next, Writer

LEMMA InitLogInv == Init => LogInv
<1> SUFFICES ASSUME Init PROVE LogInv
  OBVIOUS
<1>1. /\ data = [b \in Bufs |-> <<>>] /\ curBuf = 1 /\ nextBuf = 2 /\ spare1 = 3 /\ spare2 = 4
      /\ bufVec = <<>> /\ toWrite = <<>> /\ written = 0 /\ running = TRUE /\ pc = "check"
      /\ front = "run" /\ appended = 0 /\ file = <<>>
  BY DEF Init
<1>2. {1, 2, 3, 4} \subseteq Bufs /\ Null \notin {1, 2, 3, 4}
  BY BoundAssumption DEF Bufs, Null
<1>3. <<>> \in Seq(Bufs) /\ <<>> \in Seq(Nat) /\ Len(<<>>) = 0
  OBVIOUS
<1>4. LogType
  <2>1. data \in [Bufs -> Seq(Nat)]
    BY <1>1, <1>3
  <2> QED BY <1>1, <1>2, <1>3, <2>1 DEF LogType
<1>5. Buffers
  BY <1>1, <1>2, <1>3 DEF Buffers, Places, Ends, Apart, Distinct
<1>6. Entries
  <2>1. Run(data, <<>>, Len(<<>>), 0, 0)
    BY <1>3, RunEmpty
  <2>2. Interval(0, 0) = <<>>
    BY IntervalSeq
  <2>3. \A b \in Bufs : data[b] = <<>>
    BY <1>1
  <2> QED BY <1>1, <1>2, <1>3, <2>1, <2>2, <2>3 DEF Entries
<1> QED BY <1>4, <1>5, <1>6 DEF LogInv

-----------------------------------------------------------------------------
(* The theorems                                                            *)

\* In every reachable state the buffers are apart and hold what the file misses.
THEOREM LogInvariant == Spec => []LogInv
<1>1. LogInv /\ [Next]_vars => LogInv'
  BY BuffersStep, EntriesStep DEF LogInv
<1> QED BY <1>1, InitLogInv, PTL DEF Spec

\* No buffer has two uses while both threads run: nothing is appended to a buffer that
\* is being written, and none is written twice.
THEOREM LogBuffersApart == Spec => []BuffersApart
<1>1. LogInv => BuffersApart
  <2> SUFFICES ASSUME LogInv, pc \notin {"rest", "end"} PROVE BuffersApart
    BY DEF BuffersApart
  <2> DEFINE ptrs == <<curBuf, nextBuf, spare1, spare2>>
             full == ptrs \o bufVec
             roles == full \o toWrite
             n == Len(bufVec)
             k == Len(toWrite)
  <2>1. /\ bufVec \in Seq(Nat) /\ toWrite \in Seq(Nat) /\ ptrs \in Seq(Nat)
        /\ n \in Nat /\ k \in Nat /\ Len(ptrs) = 4
        /\ ptrs[1] = curBuf /\ ptrs[2] = nextBuf /\ ptrs[3] = spare1 /\ ptrs[4] = spare2
    <3>1. bufVec \in Seq(Bufs) /\ toWrite \in Seq(Bufs) /\ Bufs \subseteq Nat /\ Null \in Nat
      BY DEF LogInv, LogType, Bufs, Null
    <3>2. bufVec \in Seq(Nat) /\ toWrite \in Seq(Nat)
      BY <3>1, SeqWiden
    <3>3. curBuf \in Nat /\ nextBuf \in Nat /\ spare1 \in Nat /\ spare2 \in Nat
      BY <3>1 DEF LogInv, LogType
    <3> QED BY <3>2, <3>3
  <2>2. /\ full \in Seq(Nat) /\ Len(full) = 4 + n
        /\ \A i \in 1 .. 4 + n : full[i] = IF i <= 4 THEN ptrs[i] ELSE bufVec[i - 4]
    <3>1. /\ full \in Seq(Nat) /\ Len(full) = Len(ptrs) + n
          /\ \A i \in 1 .. Len(ptrs) + n :
               full[i] = IF i <= Len(ptrs) THEN ptrs[i] ELSE bufVec[i - Len(ptrs)]
      BY <2>1, ConcatProperties
    <3> QED BY <2>1, <3>1
  <2>3. /\ DOMAIN roles = 1 .. (4 + n) + k
        /\ \A i \in 1 .. (4 + n) + k :
             roles[i] = IF i <= 4 + n THEN full[i] ELSE toWrite[i - (4 + n)]
    <3>1. /\ roles \in Seq(Nat) /\ Len(roles) = Len(full) + k
          /\ \A i \in 1 .. Len(full) + k :
               roles[i] = IF i <= Len(full) THEN full[i] ELSE toWrite[i - Len(full)]
      BY <2>1, <2>2, ConcatProperties
    <3> QED BY <2>2, <3>1, LenProperties
  <2>4. Apart
    BY DEF LogInv, Buffers
  <2> HIDE DEF roles, full, ptrs, n, k
  <2>5. \A i \in DOMAIN roles :
          \/ i \in 1 .. 4 /\ roles[i] = ptrs[i]
          \/ \E p \in 1 .. n : i = 4 + p /\ roles[i] = bufVec[p]
          \/ \E p \in 1 .. k : i = (4 + n) + p /\ roles[i] = toWrite[p]
    <3> SUFFICES ASSUME NEW i \in 1 .. (4 + n) + k
                 PROVE  \/ i \in 1 .. 4 /\ roles[i] = ptrs[i]
                        \/ \E p \in 1 .. n : i = 4 + p /\ roles[i] = bufVec[p]
                        \/ \E p \in 1 .. k : i = (4 + n) + p /\ roles[i] = toWrite[p]
      BY <2>3
    <3>1. CASE i <= 4
      BY <2>1, <2>2, <2>3, <3>1
    <3>2. CASE i > 4 /\ i <= 4 + n
      <4>1. i - 4 \in 1 .. n /\ i = 4 + (i - 4)
        BY <2>1, <3>2
      <4> QED BY <2>1, <2>2, <2>3, <3>2, <4>1
    <3>3. CASE i > 4 + n
      <4>1. i - (4 + n) \in 1 .. k /\ i = (4 + n) + (i - (4 + n))
        BY <2>1, <3>3
      <4> QED BY <2>1, <2>2, <2>3, <3>3, <4>1
    <3> QED BY <2>1, <3>1, <3>2, <3>3
  <2>6. \A i \in 1 .. 4 : /\ ptrs[i] \in {curBuf, nextBuf, spare1, spare2}
                          /\ \A j \in 1 .. 4 : ptrs[i] = ptrs[j] /\ ptrs[i] # Null => i = j
    BY <2>1, <2>4 DEF Apart
  <2>7. \A b \in {curBuf, nextBuf, spare1, spare2} :
          (\A p \in 1 .. n : bufVec[p] # b) /\ (\A p \in 1 .. k : toWrite[p] # b)
    BY <2>4 DEF Apart, n, k
  <2>8. /\ \A p, q \in 1 .. n : bufVec[p] = bufVec[q] => p = q
        /\ \A p, q \in 1 .. k : toWrite[p] = toWrite[q] => p = q
        /\ \A p \in 1 .. n, q \in 1 .. k : bufVec[p] # toWrite[q]
    BY <2>4 DEF Apart, Distinct, n, k
  <2>9. \A i, j \in DOMAIN roles : roles[i] = roles[j] /\ roles[i] # Null => i = j
    <3> SUFFICES ASSUME NEW i \in DOMAIN roles, NEW j \in DOMAIN roles,
                        roles[i] = roles[j], roles[i] # Null
                 PROVE  i = j
      OBVIOUS
    <3>1. CASE i \in 1 .. 4 /\ roles[i] = ptrs[i]
      <4>1. \A p \in 1 .. n : roles[i] # bufVec[p]
        BY <2>6, <2>7, <3>1
      <4>2. \A p \in 1 .. k : roles[i] # toWrite[p]
        BY <2>6, <2>7, <3>1
      <4>3. j \in 1 .. 4 /\ roles[j] = ptrs[j]
        BY <2>5, <4>1, <4>2
      <4>4. ptrs[i] = ptrs[j] /\ ptrs[i] # Null
        BY <3>1, <4>3
      <4> QED BY <2>6, <3>1, <4>3, <4>4
    <3>2. CASE \E p \in 1 .. n : i = 4 + p /\ roles[i] = bufVec[p]
      BY <2>5, <2>6, <2>7, <2>8, <3>2
    <3>3. CASE \E p \in 1 .. k : i = (4 + n) + p /\ roles[i] = toWrite[p]
      BY <2>5, <2>6, <2>7, <2>8, <3>3
    <3> QED BY <2>5, <3>1, <3>2, <3>3
  <2> QED BY <2>9 DEF BuffersApart, roles, full, ptrs
<1> QED BY <1>1, LogInvariant, PTL

\* There is a buffer for the next entry, and the spare buffers are there when the
\* writer hands them out and when it takes them back.
THEOREM LogBuffersThere == Spec => []BuffersThere
<1>1. LogInv => BuffersThere
  BY BufNotNull DEF LogInv, LogType, Buffers, Places, BuffersThere
<1> QED BY <1>1, LogInvariant, PTL

\* However the threads interleave, and wherever the process stops, the file holds the
\* first entries of the log in their order, and all of them once the log is closed.
THEOREM LogImplementsFifoLog == Spec => ImplementsFifoLog
<1>1. Init => Fifo!Init
  <2> SUFFICES ASSUME Init PROVE Fifo!Init
    OBVIOUS
  <2>1. appended = 0 /\ file = <<>> /\ front = "run"
    BY DEF Init
  <2>2. [i \in 1 .. 0 |-> i] = <<>>
    OBVIOUS
  <2> QED BY <2>1, <2>2 DEF Fifo!Init
<1>2. LogInv /\ LogInv' /\ [Next]_vars => [Fifo!Next]_(Fifo!vars)
  <2> SUFFICES ASSUME LogInv, LogInv', [Next]_vars PROVE [Fifo!Next]_(Fifo!vars)
    OBVIOUS
  <2>1. appended \in Nat /\ appended' \in Nat /\ Len(file) \in Nat /\ Len(file') \in Nat
    BY LenProperties DEF LogInv, LogType
  <2>2. /\ [i \in 1 .. appended |-> i] = Interval(0, appended)
        /\ [i \in 1 .. appended' |-> i] = Interval(0, appended')
    BY <2>1 DEF Interval
  <2>3. /\ file = Interval(0, Len(file)) /\ Len(file) <= appended
        /\ file' = Interval(0, Len(file')) /\ Len(file') <= appended'
    BY DEF LogInv, Entries
  <2>4. Ends
    BY DEF LogInv, Buffers
  <2>5. CASE AppendEntry
    <3>1. /\ front = "run" /\ appended < MaxMsgs /\ appended' = appended + 1
          /\ UNCHANGED <<front, file>>
      BY <2>5 DEF AppendEntry, writerVars
    <3>2. appended' \in 1 .. MaxMsgs
      BY <2>1, <3>1, BoundAssumption
    <3>3. Interval(0, appended') = Append(Interval(0, appended), appended')
      <4>1. 0 \in Nat /\ 0 <= appended
        BY <2>1
      <4>2. Append(Interval(0, appended), appended + 1) = Interval(0, appended + 1)
        BY <2>1, <4>1, IntervalAppend
      <4> QED BY <3>1, <4>2
    <3>4. PICK e \in 1 .. MaxMsgs : e = appended'
      BY <3>2
    <3>5. Fifo!Log(e)
      BY <2>2, <3>1, <3>3, <3>4 DEF Fifo!Log
    <3> QED BY <3>5 DEF Fifo!Next
  <2>6. CASE WriteBuf \/ WriteRest
    <3>1. /\ pc \in {"io", "rest"} /\ UNCHANGED <<appended, front>>
      BY <2>6 DEF WriteBuf, WriteRest, frontVars
    <3>2. front # "done"
      BY <2>4, <3>1 DEF Ends
    <3>3. Len(file) <= Len(file')
      BY <2>6, WriteGrows DEF LogInv
    <3>4. file' = SubSeq(Interval(0, appended), 1, Len(file'))
      BY <2>1, <2>3, <3>1, IntervalPrefix
    <3>5. Len(Interval(0, appended)) = appended
      <4>1. 0 \in Nat /\ 0 <= appended
        BY <2>1
      <4> QED BY <2>1, <4>1, IntervalSeq
    <3>6. Len(file') \in Len(file) .. Len(Interval(0, appended))
      BY <2>1, <2>3, <3>1, <3>3, <3>5
    <3>7. Fifo!Write
      BY <2>2, <3>1, <3>2, <3>4, <3>6 DEF Fifo!Write
    <3> QED BY <3>7 DEF Fifo!Next
  <2>7. CASE Joined
    <3>1. pc = "end" /\ front' = "done" /\ UNCHANGED <<appended, file>>
      BY <2>7 DEF Joined, writerVars
    <3>2. /\ Run(data, bufVec, written, Len(file), appended)
          /\ bufVec \in Seq(Bufs) /\ written \in 0 .. Len(bufVec) /\ written = Len(bufVec)
      BY <3>1 DEF LogInv, LogType, Buffers, Places, Entries
    <3>3. Len(file) = appended
      BY <2>1, <3>2, RunBounds
    <3>4. Fifo!Close
      BY <2>2, <2>3, <3>1, <3>3 DEF Fifo!Close
    <3> QED BY <3>4 DEF Fifo!Next
  <2>8. CASE Stop \/ Check \/ Wake \/ Recycle \/ Final \/ UNCHANGED vars
    <3>1. UNCHANGED <<appended, file>> /\ (front = "done" <=> front' = "done")
      BY <2>8 DEF Stop, Check, Wake, Recycle, Final, vars, bufVars, frontVars, writerVars
    <3> QED BY <3>1 DEF Fifo!vars
  <2> QED BY <2>5, <2>6, <2>7, <2>8 DEF Next, Writer
<1> QED BY <1>1, <1>2, LogInvariant, PTL DEF Spec, ImplementsFifoLog, Fifo!Spec
=============================================================================
