--------------------------- MODULE Pools_proofs -----------------------------
(***************************************************************************)
(* The pools, of every size. IndexPool: an id that is kept while fewer     *)
(* than AutoMod objects are made finds its own object or nothing; the last *)
(* ids that were given are the last values of a counter that runs round,   *)
(* so that no two of them are equal. LevelPool: the free and the used      *)
(* blocks of all levels split the memory between them, through every split *)
(* of _Split and every descent of _Append. PagePool: however many threads  *)
(* find the queue empty at the same time, no cell is given out twice and   *)
(* none is lost, and an Alloc that comes back with nothing lost its whole  *)
(* page to others.                                                         *)
(***************************************************************************)
EXTENDS IndexPool, LevelPool, PagePool, Iteration, FiniteSetTheorems, SequenceTheorems, TLAPS

-----------------------------------------------------------------------------
(* IndexPool                                                               *)

Ids == [auto : Nat, idx : Nat]
Gifts == [id : Ids, cell : Cells, gone : BOOLEAN]

IndexType ==
  /\ m_cnt \in 1 .. MaxCnt
  /\ freeIdx \in Seq(Nat)
  /\ m_index \in [Cells -> Cells \cup {VOID, Garbage}]
  /\ uniqueId \in [Cells -> Ids \cup {Garbage}]
  /\ autoId \in 0 .. AutoMod - 1
  /\ given \in Seq(Gifts)

\* The queue has cells of the pool without an object, each once.
FreeApart ==
  /\ \A i \in 1 .. Len(freeIdx) :
       freeIdx[i] < m_cnt /\ m_index[freeIdx[i]] \in {VOID, Garbage}
  /\ \A i, j \in 1 .. Len(freeIdx) : freeIdx[i] = freeIdx[j] => i = j

CellsKnown ==
  /\ \A c \in Cells : m_index[c] \in {c, VOID, Garbage}
  /\ \A c \in Cells : c >= m_cnt => m_index[c] = Garbage

\* The counter as it was k ids ago.
Before(a, k) == IF a >= k THEN a - k ELSE a - k + AutoMod

GivenIds ==
  /\ Len(given) <= AutoMod
  /\ \A i \in 1 .. Len(given) :
       /\ given[i].id.auto = Before(autoId, Len(given) - i)
       /\ given[i].id.idx = given[i].cell
       /\ given[i].cell < m_cnt

\* The cell of a given id has its object, or none, or one with another id.
GivenFound ==
  \A i \in 1 .. Len(given) :
    LET c == given[i].cell
    IN  IF given[i].gone THEN m_index[c] = VOID \/ uniqueId[c] # given[i].id
        ELSE m_index[c] = c /\ uniqueId[c] = given[i].id

IndexInv == IndexType /\ FreeApart /\ CellsKnown /\ GivenIds /\ GivenFound

-----------------------------------------------------------------------------
(* The counter                                                             *)

LEMMA NextAuto ==
  ASSUME NEW a \in 0 .. AutoMod - 1
  PROVE  /\ (a + 1) % AutoMod = IF a = AutoMod - 1 THEN 0 ELSE a + 1
         /\ (a + 1) % AutoMod \in 0 .. AutoMod - 1
<1>1. AutoMod \in Nat \ {0}
  BY IndexPoolAssumption
<1>2. CASE a = AutoMod - 1
  <2>1. a + 1 = AutoMod /\ AutoMod % AutoMod = 0
    BY <1>1, <1>2
  <2> QED BY <1>1, <1>2, <2>1
<1>3. CASE a # AutoMod - 1
  <2>1. (a + 1) % AutoMod = a + 1
    BY <1>1, <1>3
  <2> QED BY <1>1, <1>3, <2>1
<1> QED BY <1>2, <1>3

\* Fewer than AutoMod ids ago the counter was a different one; and what was k ids ago
\* is k + 1 ids ago after the next id.
LEMMA BeforeApart ==
  ASSUME NEW a \in 0 .. AutoMod - 1, NEW k \in 0 .. AutoMod - 1, NEW l \in 0 .. AutoMod - 1
  PROVE  /\ Before(a, k) \in 0 .. AutoMod - 1
         /\ Before(a, 0) = a
         /\ Before(a, k) = Before(a, l) => k = l
         /\ k + 1 <= AutoMod - 1 => Before((a + 1) % AutoMod, k + 1) = Before(a, k)
<1>1. AutoMod \in Nat \ {0}
  BY IndexPoolAssumption
<1>2. (a + 1) % AutoMod = IF a = AutoMod - 1 THEN 0 ELSE a + 1
  BY NextAuto
<1> QED BY <1>1, <1>2 DEF Before

-----------------------------------------------------------------------------
(* The steps                                                               *)

\* What operator new finds in the queue, doubled or not: a cell without an object.
LEMMA QueueOK ==
  ASSUME IndexInv, freeIdx # <<>> \/ 2 * m_cnt <= MaxCnt,
         NEW queue, queue = IF freeIdx = <<>> THEN Double(freeIdx) ELSE freeIdx,
         NEW n, n = IF freeIdx = <<>> THEN 2 * m_cnt ELSE m_cnt
  PROVE  /\ n \in m_cnt .. MaxCnt /\ queue \in Seq(Nat) /\ queue # <<>>
         /\ \A i \in 1 .. Len(queue) : queue[i] < n /\ m_index[queue[i]] \in {VOID, Garbage}
         /\ \A i, j \in 1 .. Len(queue) : queue[i] = queue[j] => i = j
<1>1. m_cnt \in Nat \ {0} /\ m_cnt <= MaxCnt /\ MaxCnt \in Nat /\ freeIdx \in Seq(Nat)
  BY IndexPoolAssumption DEF IndexInv, IndexType
<1>2. CASE freeIdx # <<>>
  BY <1>1, <1>2 DEF IndexInv, FreeApart
<1>3. CASE freeIdx = <<>>
  <2> DEFINE f == [i \in 1 .. m_cnt |-> m_cnt + i - 1]
  <2>1. /\ f \in [1 .. m_cnt -> Nat]
        /\ \A i \in 1 .. m_cnt : f[i] = m_cnt + i - 1
    BY <1>1
  <2>2. f \in Seq(Nat) /\ Len(f) = m_cnt
    BY <1>1, <2>1
  <2>3. queue = <<>> \o f /\ n = 2 * m_cnt /\ 2 * m_cnt <= MaxCnt
    BY <1>3 DEF Double
  <2> HIDE DEF f
  <2>4. queue = f
    BY <2>2, <2>3, ConcatEmptySeq
  <2>5. queue # <<>>
    BY <1>1, <2>2, <2>4
  <2>6. \A i \in 1 .. Len(queue) : queue[i] < n /\ m_index[queue[i]] \in {VOID, Garbage}
    <3> SUFFICES ASSUME NEW i \in 1 .. m_cnt
                 PROVE  f[i] < n /\ m_index[f[i]] \in {VOID, Garbage}
      BY <2>2, <2>4
    <3>1. f[i] < n /\ f[i] \in 0 .. MaxCnt - 1 /\ f[i] >= m_cnt
      BY <1>1, <2>1, <2>3
    <3> QED BY <3>1 DEF IndexInv, CellsKnown, Cells
  <2>7. \A i, j \in 1 .. Len(queue) : queue[i] = queue[j] => i = j
    <3> SUFFICES ASSUME NEW i \in 1 .. m_cnt, NEW j \in 1 .. m_cnt, f[i] = f[j]
                 PROVE  i = j
      BY <2>2, <2>4
    <3>1. m_cnt + i - 1 = m_cnt + j - 1
      BY <2>1
    <3> QED BY <1>1, <3>1
  <2> QED BY <1>1, <2>2, <2>3, <2>4, <2>5, <2>6, <2>7
<1> QED BY <1>2, <1>3

\* The last ids, when there is no room for one more: the oldest goes.
LEMMA OldGifts ==
  ASSUME IndexType, GivenIds, NEW old, old = IF Len(given) < AutoMod THEN given ELSE Tail(given)
  PROVE  /\ old \in Seq(Gifts) /\ Len(old) \in 0 .. AutoMod - 1 /\ Len(given) \in Nat
         /\ \A i \in 1 .. Len(old) : /\ i + (Len(given) - Len(old)) \in 1 .. Len(given)
                                     /\ old[i] = given[i + (Len(given) - Len(old))]
<1>1. given \in Seq(Gifts) /\ Len(given) \in Nat /\ Len(given) <= AutoMod /\ AutoMod \in Nat \ {0}
  BY LenProperties, IndexPoolAssumption DEF IndexType, GivenIds
<1>2. CASE Len(given) < AutoMod
  <2>1. old = given
    BY <1>2
  <2> QED BY <1>1, <1>2, <2>1
<1>3. CASE Len(given) = AutoMod
  <2>1. given # <<>>
    BY <1>1, <1>3
  <2> DEFINE t == Tail(given)
  <2>2. /\ t \in Seq(Gifts) /\ Len(t) = Len(given) - 1
        /\ \A i \in 1 .. Len(given) - 1 : t[i] = given[i + 1]
    BY <1>1, <2>1
  <2>3. old = t
    BY <1>1, <1>3
  <2> HIDE DEF t
  <2>4. Len(old) = Len(given) - 1 /\ Len(given) - Len(old) = 1
    BY <1>1, <2>2, <2>3
  <2>5. \A i \in 1 .. Len(old) : i + 1 \in 1 .. Len(given) /\ old[i] = given[i + 1]
    BY <1>1, <2>2, <2>3, <2>4
  <2>6. old \in Seq(Gifts) /\ Len(old) \in 0 .. AutoMod - 1
    BY <1>1, <1>3, <2>2, <2>3
  <2>7. \A i \in 1 .. Len(old) : /\ i + (Len(given) - Len(old)) \in 1 .. Len(given)
                                 /\ old[i] = given[i + (Len(given) - Len(old))]
    BY <2>4, <2>5
  <2> QED BY <1>1, <2>6, <2>7
<1>4. Len(given) < AutoMod \/ Len(given) = AutoMod
  BY <1>1
<1> QED BY <1>2, <1>3, <1>4

LEMMA NewObjectOK ==
  ASSUME IndexInv, NewObject
  PROVE  IndexInv'
<1> DEFINE queue == IF freeIdx = <<>> THEN Double(freeIdx) ELSE freeIdx
           idx   == Head(queue)
           id    == CreateUniqueId(idx)
           old   == IF Len(given) < AutoMod THEN given ELSE Tail(given)
           gift  == [id |-> id, cell |-> idx, gone |-> FALSE]
           off   == Len(given) - Len(old)
<1>1. /\ freeIdx' = Tail(queue)
      /\ m_cnt' = IF freeIdx = <<>> THEN 2 * m_cnt ELSE m_cnt
      /\ m_index' = [m_index EXCEPT ![idx] = idx]
      /\ uniqueId' = [uniqueId EXCEPT ![idx] = id]
      /\ autoId' = id.auto
      /\ given' = Append(old, gift)
  BY DEF NewObject
<1>2. /\ m_cnt' \in m_cnt .. MaxCnt /\ queue \in Seq(Nat) /\ queue # <<>>
      /\ \A i \in 1 .. Len(queue) : queue[i] < m_cnt' /\ m_index[queue[i]] \in {VOID, Garbage}
      /\ \A i, j \in 1 .. Len(queue) : queue[i] = queue[j] => i = j
  BY <1>1, QueueOK DEF NewObject
<1>3. IndexType /\ GivenIds /\ GivenFound /\ CellsKnown /\ m_cnt \in Nat \ {0} /\ MaxCnt \in Nat
      /\ AutoMod \in Nat \ {0} /\ autoId \in 0 .. AutoMod - 1
  BY IndexPoolAssumption DEF IndexInv, IndexType
<1>4. /\ old \in Seq(Gifts) /\ Len(old) \in 0 .. AutoMod - 1 /\ Len(given) \in Nat
      /\ \A i \in 1 .. Len(old) : i + off \in 1 .. Len(given) /\ old[i] = given[i + off]
  BY <1>3, OldGifts
<1> HIDE DEF queue, old
<1>5. /\ idx = queue[1] /\ 1 \in 1 .. Len(queue) /\ Len(queue) \in Nat
      /\ freeIdx' \in Seq(Nat) /\ Len(freeIdx') = Len(queue) - 1
      /\ \A i \in 1 .. Len(queue) - 1 : freeIdx'[i] = queue[i + 1]
  BY <1>1, <1>2
<1>6. idx \in Cells /\ idx < m_cnt' /\ m_index[idx] \in {VOID, Garbage} /\ idx \in Nat
  BY <1>2, <1>3, <1>5, ElementOfSeq DEF Cells
<1> HIDE DEF idx
<1>7. /\ id = [auto |-> (autoId + 1) % AutoMod, idx |-> idx]
      /\ id.auto = (autoId + 1) % AutoMod /\ id.idx = idx
      /\ id.auto \in 0 .. AutoMod - 1 /\ id \in Ids
  <2>1. (autoId + 1) % AutoMod \in 0 .. AutoMod - 1
    BY <1>3, NextAuto
  <2> QED BY <1>3, <1>6, <2>1 DEF CreateUniqueId, Id, Ids
<1> HIDE DEF id
<1>8. gift \in Gifts /\ gift.id = id /\ gift.cell = idx /\ gift.gone = FALSE
  BY <1>6, <1>7 DEF Gifts
<1> HIDE DEF gift
<1>9. /\ given' \in Seq(Gifts) /\ Len(given') = Len(old) + 1
      /\ \A i \in 1 .. Len(old) : given'[i] = given[i + off]
      /\ given'[Len(old) + 1] = gift
  BY <1>1, <1>4, <1>8
<1>10. /\ m_index' \in [Cells -> Cells \cup {VOID, Garbage}] /\ m_index'[idx] = idx
       /\ \A c \in Cells : c # idx => m_index'[c] = m_index[c]
  BY <1>1, <1>3, <1>6 DEF IndexType
<1>11. /\ uniqueId' \in [Cells -> Ids \cup {Garbage}] /\ uniqueId'[idx] = id
       /\ \A c \in Cells : c # idx => uniqueId'[c] = uniqueId[c]
  BY <1>1, <1>3, <1>6, <1>7 DEF IndexType
<1>12. IndexType'
  <2>1. m_cnt' \in 1 .. MaxCnt
    BY <1>2, <1>3
  <2> QED BY <1>1, <1>5, <1>7, <1>9, <1>10, <1>11, <2>1 DEF IndexType
<1>13. FreeApart'
  <2>1. \A i \in 1 .. Len(freeIdx') : /\ i + 1 \in 1 .. Len(queue) /\ i + 1 # 1
                                      /\ freeIdx'[i] = queue[i + 1]
    BY <1>5
  <2>2. \A i \in 1 .. Len(freeIdx') :
          freeIdx'[i] # idx /\ freeIdx'[i] < m_cnt' /\ freeIdx'[i] \in Cells
    <3> SUFFICES ASSUME NEW i \in 1 .. Len(freeIdx')
                 PROVE  freeIdx'[i] # idx /\ freeIdx'[i] < m_cnt' /\ freeIdx'[i] \in Cells
      OBVIOUS
    <3>1. i + 1 \in 1 .. Len(queue) /\ i + 1 # 1 /\ freeIdx'[i] = queue[i + 1]
      BY <2>1
    <3>2. queue[i + 1] \in Nat /\ queue[i + 1] < m_cnt'
      BY <1>2, <3>1, ElementOfSeq
    <3>3. queue[i + 1] # queue[1]
      BY <1>2, <1>5, <3>1
    <3> QED BY <1>2, <1>3, <1>5, <3>1, <3>2, <3>3 DEF Cells
  <2>3. \A i \in 1 .. Len(freeIdx') : m_index'[freeIdx'[i]] \in {VOID, Garbage}
    <3> SUFFICES ASSUME NEW i \in 1 .. Len(freeIdx')
                 PROVE  m_index'[freeIdx'[i]] \in {VOID, Garbage}
      OBVIOUS
    <3>1. m_index'[freeIdx'[i]] = m_index[freeIdx'[i]]
      BY <1>10, <2>2
    <3>2. m_index[freeIdx'[i]] \in {VOID, Garbage}
      BY <1>2, <2>1
    <3> QED BY <3>1, <3>2
  <2>4. \A i, j \in 1 .. Len(freeIdx') : freeIdx'[i] = freeIdx'[j] => i = j
    <3> SUFFICES ASSUME NEW i \in 1 .. Len(freeIdx'), NEW j \in 1 .. Len(freeIdx'),
                        freeIdx'[i] = freeIdx'[j]
                 PROVE  i = j
      OBVIOUS
    <3>1. /\ i + 1 \in 1 .. Len(queue) /\ j + 1 \in 1 .. Len(queue)
          /\ queue[i + 1] = queue[j + 1]
      BY <2>1
    <3>2. i + 1 = j + 1
      BY <1>2, <3>1
    <3> QED BY <3>2
  <2> QED BY <2>2, <2>3, <2>4 DEF FreeApart
<1>14. CellsKnown'
  <2>1. \A c \in Cells : m_index'[c] \in {c, VOID, Garbage}
    BY <1>3, <1>10 DEF CellsKnown
  <2>2. \A c \in Cells : c >= m_cnt' => m_index'[c] = Garbage
    <3> SUFFICES ASSUME NEW c \in Cells, c >= m_cnt' PROVE m_index'[c] = Garbage
      OBVIOUS
    <3>1. c # idx /\ c >= m_cnt
      BY <1>2, <1>3, <1>6 DEF Cells
    <3> QED BY <1>3, <1>10, <3>1 DEF CellsKnown
  <2> QED BY <2>1, <2>2 DEF CellsKnown
<1>15. \A i \in 1 .. Len(old) : given[i + off].id.auto # id.auto
  <2> SUFFICES ASSUME NEW i \in 1 .. Len(old) PROVE given[i + off].id.auto # id.auto
    OBVIOUS
  <2> DEFINE k == Len(given) - (i + off)
  <2>1. given[i + off].id.auto = Before(autoId, k)
    BY <1>3, <1>4 DEF GivenIds
  <2>2. k = Len(old) - i /\ k \in 0 .. AutoMod - 1 /\ k + 1 \in 1 .. AutoMod - 1
    BY <1>3, <1>4
  <2> HIDE DEF k
  <2>3. Before(autoId, k) = Before(id.auto, k + 1)
    BY <1>3, <1>7, <2>2, BeforeApart
  <2>4. id.auto = Before(id.auto, 0) /\ 0 \in 0 .. AutoMod - 1 /\ k + 1 \in 0 .. AutoMod - 1
    BY <1>3, <1>7, <2>2, BeforeApart
  <2>5. Before(id.auto, k + 1) = Before(id.auto, 0) => k + 1 = 0
    BY <1>7, <2>4, BeforeApart
  <2> QED BY <2>1, <2>2, <2>3, <2>4, <2>5
<1>16. GivenIds'
  <2>1. Len(given') <= AutoMod
    BY <1>3, <1>4, <1>9
  <2>2. ASSUME NEW i \in 1 .. Len(old)
        PROVE  /\ given'[i].id.auto = Before(autoId', Len(given') - i)
               /\ given'[i].id.idx = given'[i].cell
               /\ given'[i].cell < m_cnt'
    <3> DEFINE k == Len(old) - i
    <3>1. k \in 0 .. AutoMod - 1 /\ k + 1 \in 1 .. AutoMod - 1 /\ Len(given') - i = k + 1
          /\ Len(given) - (i + off) = k
      BY <1>3, <1>4, <1>9
    <3>2. /\ given[i + off].id.auto = Before(autoId, Len(given) - (i + off))
          /\ given[i + off].id.idx = given[i + off].cell
          /\ given[i + off].cell < m_cnt
      BY <1>3, <1>4 DEF GivenIds
    <3>3. given[i + off].id.auto = Before(autoId, k)
      BY <3>1, <3>2
    <3> HIDE DEF k
    <3>4. Before(autoId, k) = Before(autoId', k + 1)
      BY <1>1, <1>3, <1>7, <3>1, BeforeApart
    <3>5. given[i + off].cell < m_cnt'
      <4>1. given[i + off] \in Gifts
        BY <1>3, <1>4, ElementOfSeq DEF IndexType
      <4>2. given[i + off].cell \in Nat
        BY <1>3, <4>1 DEF Gifts, Cells
      <4> QED BY <1>2, <1>3, <3>2, <4>2
    <3> QED BY <1>9, <3>1, <3>2, <3>3, <3>4, <3>5
  <2>3. ASSUME NEW i, i = Len(old) + 1
        PROVE  /\ given'[i].id.auto = Before(autoId', Len(given') - i)
               /\ given'[i].id.idx = given'[i].cell
               /\ given'[i].cell < m_cnt'
    <3>1. Len(given') - i = 0 /\ given'[i] = gift
      BY <1>4, <1>9, <2>3
    <3>2. Before(autoId', 0) = autoId'
      BY <1>1, <1>3, <1>7 DEF Before
    <3> QED BY <1>1, <1>6, <1>7, <1>8, <3>1, <3>2
  <2>4. \A i \in 1 .. Len(given') : i \in 1 .. Len(old) \/ i = Len(old) + 1
    BY <1>4, <1>9
  <2> QED BY <2>1, <2>2, <2>3, <2>4 DEF GivenIds
<1>17. GivenFound'
  <2> SUFFICES ASSUME NEW i \in 1 .. Len(given'), NEW c, c = given'[i].cell
               PROVE  IF given'[i].gone THEN m_index'[c] = VOID \/ uniqueId'[c] # given'[i].id
                      ELSE m_index'[c] = c /\ uniqueId'[c] = given'[i].id
    BY DEF GivenFound
  <2>1. CASE i = Len(old) + 1
    BY <1>8, <1>9, <1>10, <1>11, <2>1
  <2>2. CASE i \in 1 .. Len(old)
    <3>1. given'[i] = given[i + off] /\ i + off \in 1 .. Len(given)
      BY <1>4, <1>9, <2>2
    <3>2. given[i + off] \in Gifts
      BY <1>3, <3>1, ElementOfSeq DEF IndexType
    <3>3. c \in Cells /\ c \in Nat
      BY <1>3, <3>1, <3>2 DEF Gifts, Cells
    <3>4. IF given[i + off].gone THEN m_index[c] = VOID \/ uniqueId[c] # given[i + off].id
          ELSE m_index[c] = c /\ uniqueId[c] = given[i + off].id
      BY <1>3, <3>1 DEF GivenFound
    <3>5. CASE c = idx
      <4>1. given[i + off].gone
        <5>1. m_index[c] # c
          BY <1>6, <3>3, <3>5, IndexPoolAssumption
        <5> QED BY <3>4, <5>1
      <4>2. uniqueId'[c] # given[i + off].id
        BY <1>11, <1>15, <2>2, <3>5
      <4> QED BY <3>1, <4>1, <4>2
    <3>6. CASE c # idx
      BY <1>10, <1>11, <3>1, <3>3, <3>4, <3>6
    <3> QED BY <3>5, <3>6
  <2> QED BY <1>4, <1>9, <2>1, <2>2
<1> QED BY <1>12, <1>13, <1>14, <1>16, <1>17 DEF IndexInv

LEMMA DeleteObjectOK ==
  ASSUME IndexInv, NEW c \in Cells, DeleteObject(c)
  PROVE  IndexInv'
<1> DEFINE f == [i \in 1 .. Len(given) |-> [given[i] EXCEPT !.gone = @ \/ given[i].cell = c]]
<1>1. /\ c < m_cnt /\ m_index[c] = c /\ freeIdx' = Append(freeIdx, m_index[c])
      /\ m_index' = [m_index EXCEPT ![c] = VOID] /\ given' = f
      /\ UNCHANGED <<m_cnt, uniqueId, autoId>>
  BY DEF DeleteObject, Live
<1>2. /\ IndexType /\ FreeApart /\ CellsKnown /\ GivenIds /\ GivenFound
      /\ c \in Nat /\ c # VOID /\ c # Garbage
  BY IndexPoolAssumption DEF IndexInv, Cells
<1>3. given \in Seq(Gifts) /\ Len(given) \in Nat /\ freeIdx \in Seq(Nat) /\ Len(freeIdx) \in Nat
  BY <1>2, LenProperties DEF IndexType
<1>4. \A i \in 1 .. Len(given) :
        /\ given[i] \in Gifts
        /\ f[i] = [given[i] EXCEPT !.gone = @ \/ given[i].cell = c]
        /\ f[i].id = given[i].id /\ f[i].cell = given[i].cell
        /\ f[i].gone = (given[i].gone \/ given[i].cell = c)
        /\ f[i] \in Gifts
  <2> SUFFICES ASSUME NEW i \in 1 .. Len(given)
               PROVE  /\ given[i] \in Gifts
                      /\ f[i] = [given[i] EXCEPT !.gone = @ \/ given[i].cell = c]
                      /\ f[i].id = given[i].id /\ f[i].cell = given[i].cell
                      /\ f[i].gone = (given[i].gone \/ given[i].cell = c)
                      /\ f[i] \in Gifts
    OBVIOUS
  <2>1. given[i] \in Gifts
    BY <1>3, ElementOfSeq
  <2>2. f[i] = [given[i] EXCEPT !.gone = @ \/ given[i].cell = c]
    OBVIOUS
  <2> HIDE DEF f
  <2>3. /\ f[i].id = given[i].id /\ f[i].cell = given[i].cell
        /\ f[i].gone = (given[i].gone \/ given[i].cell = c)
    BY <2>1, <2>2 DEF Gifts
  <2>4. (given[i].gone \/ given[i].cell = c) \in BOOLEAN
    OBVIOUS
  <2>5. f[i] \in Gifts
    BY <2>1, <2>2, <2>4 DEF Gifts
  <2> QED BY <2>1, <2>2, <2>3, <2>5
<1>5. f \in [1 .. Len(given) -> Gifts]
  BY <1>4
<1>6. given' \in Seq(Gifts) /\ Len(given') = Len(given)
  BY <1>1, <1>3, <1>5
<1> HIDE DEF f
<1>7. /\ m_index' \in [Cells -> Cells \cup {VOID, Garbage}] /\ m_index'[c] = VOID
      /\ \A d \in Cells : d # c => m_index'[d] = m_index[d]
  BY <1>1, <1>2 DEF IndexType
<1>8. /\ freeIdx' \in Seq(Nat) /\ Len(freeIdx') = Len(freeIdx) + 1
      /\ \A i \in 1 .. Len(freeIdx) : freeIdx'[i] = freeIdx[i]
      /\ freeIdx'[Len(freeIdx) + 1] = c
  BY <1>1, <1>2, <1>3
<1>9. IndexType'
  BY <1>1, <1>2, <1>6, <1>7, <1>8 DEF IndexType
<1>10. FreeApart'
  <2>1. \A i \in 1 .. Len(freeIdx) : freeIdx[i] # c /\ freeIdx[i] \in Cells
    <3> SUFFICES ASSUME NEW i \in 1 .. Len(freeIdx) PROVE freeIdx[i] # c /\ freeIdx[i] \in Cells
      OBVIOUS
    <3>1. freeIdx[i] \in Nat /\ freeIdx[i] < m_cnt /\ m_index[freeIdx[i]] \in {VOID, Garbage}
      BY <1>2, <1>3, ElementOfSeq DEF FreeApart
    <3>2. freeIdx[i] # c
      BY <1>1, <1>2, <3>1
    <3>3. m_cnt <= MaxCnt /\ m_cnt \in Nat /\ MaxCnt \in Nat
      BY <1>2, IndexPoolAssumption DEF IndexType
    <3> QED BY <3>1, <3>2, <3>3 DEF Cells
  <2>2. ASSUME NEW i \in 1 .. Len(freeIdx')
        PROVE  freeIdx'[i] < m_cnt' /\ m_index'[freeIdx'[i]] \in {VOID, Garbage}
    <3>1. CASE i \in 1 .. Len(freeIdx)
      <4>1. freeIdx[i] < m_cnt /\ m_index[freeIdx[i]] \in {VOID, Garbage}
        BY <1>2, <3>1 DEF FreeApart
      <4>2. m_index'[freeIdx[i]] = m_index[freeIdx[i]]
        BY <1>7, <2>1, <3>1
      <4> QED BY <1>1, <1>8, <3>1, <4>1, <4>2
    <3>2. CASE i = Len(freeIdx) + 1
      BY <1>1, <1>7, <1>8, <3>2
    <3> QED BY <1>3, <1>8, <3>1, <3>2
  <2>3. \A i, j \in 1 .. Len(freeIdx') : freeIdx'[i] = freeIdx'[j] => i = j
    <3> SUFFICES ASSUME NEW i \in 1 .. Len(freeIdx'), NEW j \in 1 .. Len(freeIdx'),
                        freeIdx'[i] = freeIdx'[j]
                 PROVE  i = j
      OBVIOUS
    <3>1. CASE i \in 1 .. Len(freeIdx) /\ j \in 1 .. Len(freeIdx)
      <4>1. freeIdx[i] = freeIdx[j]  BY <1>8, <3>1
      <4> QED BY <1>2, <3>1, <4>1 DEF FreeApart
    <3>2. \A l \in 1 .. Len(freeIdx) : freeIdx'[l] # freeIdx'[Len(freeIdx) + 1]
      BY <1>8, <2>1
    <3>3. Len(freeIdx) \in Nat /\ Len(freeIdx') = Len(freeIdx) + 1
      BY <1>3, <1>8
    <3>4. CASE i = Len(freeIdx) + 1 /\ j \in 1 .. Len(freeIdx)
      BY <3>2, <3>4
    <3>5. CASE i \in 1 .. Len(freeIdx) /\ j = Len(freeIdx) + 1
      BY <3>2, <3>5
    <3> QED BY <3>1, <3>3, <3>4, <3>5
  <2> QED BY <2>2, <2>3 DEF FreeApart
<1>11. CellsKnown'
  <2>1. \A d \in Cells : m_index'[d] \in {d, VOID, Garbage}
    BY <1>2, <1>7 DEF CellsKnown
  <2>2. \A d \in Cells : d >= m_cnt' => m_index'[d] = Garbage
    <3> SUFFICES ASSUME NEW d \in Cells, d >= m_cnt PROVE m_index'[d] = Garbage
      BY <1>1
    <3>1. d # c
      <4>1. m_cnt \in Nat
        BY <1>2 DEF IndexType
      <4> QED BY <1>1, <1>2, <4>1
    <3> QED BY <1>2, <1>7, <3>1 DEF CellsKnown
  <2> QED BY <2>1, <2>2 DEF CellsKnown
<1>12. GivenIds'
  BY <1>1, <1>2, <1>4, <1>6 DEF GivenIds
<1>13. GivenFound'
  <2> SUFFICES ASSUME NEW i \in 1 .. Len(given), NEW d, d = f[i].cell
               PROVE  IF f[i].gone THEN m_index'[d] = VOID \/ uniqueId'[d] # f[i].id
                      ELSE m_index'[d] = d /\ uniqueId'[d] = f[i].id
    BY <1>1, <1>6 DEF GivenFound
  <2>1. /\ d = given[i].cell /\ f[i].id = given[i].id /\ d \in Cells
        /\ f[i].gone = (given[i].gone \/ d = c)
    BY <1>4 DEF Gifts
  <2>2. IF given[i].gone THEN m_index[d] = VOID \/ uniqueId[d] # given[i].id
        ELSE m_index[d] = d /\ uniqueId[d] = given[i].id
    BY <1>2, <2>1 DEF GivenFound
  <2>3. CASE d = c
    BY <1>7, <2>1, <2>3
  <2>4. CASE d # c
    BY <1>1, <1>7, <2>1, <2>2, <2>4
  <2> QED BY <2>3, <2>4
<1> QED BY <1>9, <1>10, <1>11, <1>12, <1>13 DEF IndexInv

LEMMA IndexInvInit == IndexInit => IndexInv
<1> SUFFICES ASSUME IndexInit PROVE IndexInv
  OBVIOUS
<1> DEFINE f == [i \in 1 .. IndexNum |-> i - 1]
<1>1. /\ m_cnt = IndexNum /\ freeIdx = f
      /\ m_index = [c \in Cells |-> Garbage] /\ uniqueId = [c \in Cells |-> Garbage]
      /\ autoId = 0 /\ given = <<>>
  BY DEF IndexInit
<1>2. /\ IndexNum \in Nat \ {0} /\ MaxCnt \in Nat /\ IndexNum <= MaxCnt /\ AutoMod \in Nat \ {0}
  BY IndexPoolAssumption
<1>3. \A i \in 1 .. IndexNum : f[i] = i - 1 /\ f[i] \in Nat /\ f[i] < IndexNum /\ f[i] \in Cells
  BY <1>2 DEF Cells
<1>4. f \in [1 .. IndexNum -> Nat]
  BY <1>3
<1>5. f \in Seq(Nat) /\ Len(f) = IndexNum
  BY <1>2, <1>4
<1>6. <<>> \in Seq(Gifts) /\ Len(<<>>) = 0
  OBVIOUS
<1> HIDE DEF f
<1>7. IndexType
  BY <1>1, <1>2, <1>5, <1>6 DEF IndexType
<1>8. FreeApart
  <2>1. \A i, j \in 1 .. IndexNum : f[i] = f[j] => i = j
    BY <1>2, <1>3
  <2> QED BY <1>1, <1>3, <1>5, <2>1 DEF FreeApart
<1>9. CellsKnown
  BY <1>1 DEF CellsKnown
<1>10. GivenIds /\ GivenFound
  BY <1>1, <1>2, <1>6 DEF GivenIds, GivenFound
<1> QED BY <1>7, <1>8, <1>9, <1>10 DEF IndexInv

-----------------------------------------------------------------------------
(* The theorems                                                            *)

\* In every reachable state the free cells have no objects and the last ids are different.
THEOREM IndexInvariant == IndexSpec => []IndexInv
<1>1. IndexInv /\ [IndexNext]_indexVars => IndexInv'
  <2> SUFFICES ASSUME IndexInv, [IndexNext]_indexVars PROVE IndexInv'
    OBVIOUS
  <2>1. CASE UNCHANGED indexVars
    BY <2>1 DEF indexVars, IndexInv, IndexType, FreeApart, CellsKnown, GivenIds, GivenFound
  <2> QED BY <2>1, NewObjectOK, DeleteObjectOK DEF IndexNext
<1> QED BY <1>1, IndexInvInit, PTL DEF IndexSpec

\* FindByUniqueId gives an id's own object, or nothing when that is gone, for the last
\* AutoMod ids that were given.
THEOREM IndexFindsOwn == IndexSpec => []FindsOwn
<1>1. IndexInv => FindsOwn
  <2> SUFFICES ASSUME IndexInv, NEW i \in 1 .. Len(given)
               PROVE  FindByUniqueId(given[i].id)
                        = IF given[i].gone THEN VOID ELSE given[i].cell
    BY DEF FindsOwn
  <2> DEFINE c == given[i].cell
             id == given[i].id
  <2>1. id.idx = c /\ c < m_cnt /\ c \in Cells /\ c \in Nat /\ c # VOID
    <3>1. given[i] \in Gifts
      BY ElementOfSeq DEF IndexInv, IndexType
    <3> QED BY <3>1, IndexPoolAssumption DEF IndexInv, GivenIds, Gifts, Cells
  <2>2. m_cnt \in Nat
    BY DEF IndexInv, IndexType
  <2>3. IF given[i].gone THEN m_index[c] = VOID \/ uniqueId[c] # id
        ELSE m_index[c] = c /\ uniqueId[c] = id
    BY DEF IndexInv, GivenFound
  <2> HIDE DEF c, id
  <2>4. GetByIdx(id.idx) = IF m_index[c] = VOID THEN VOID ELSE c
    BY <2>1, <2>2 DEF GetByIdx
  <2>5. FindByUniqueId(id) = IF m_index[c] # VOID /\ uniqueId[c] = id THEN c ELSE VOID
    BY <2>1, <2>4 DEF FindByUniqueId
  <2>6. FindByUniqueId(id) = IF given[i].gone THEN VOID ELSE c
    BY <2>1, <2>3, <2>5
  <2> QED BY <2>6 DEF c, id
<1> QED BY <1>1, IndexInvariant, PTL

-----------------------------------------------------------------------------
(* PagePool                                                                 *)

AnyCell == [page : Nat, i : Nat]

PageType ==
  /\ pages \in Nat \ {0}
  /\ cells \in Seq(AnyCell)
  /\ inUse \subseteq AnyCell
  /\ at \in [PoolThreads -> [pc : {"out", "double", "pop", "got"}, page : Nat, n : Nat,
                             ret : AnyCell \cup {NULL}]]
  /\ taken \in [PoolThreads -> Nat]

\* The cell was made: its page has been allocated, and the thread that makes the cells
\* of this page, if one does, has come past it.
Made(c, n, w) ==
  /\ c.page \in 1 .. n /\ c.i \in 1 .. PageCnt
  /\ \A t \in PoolThreads : w[t].pc = "double" /\ w[t].page = c.page => c.i <= w[t].n

\* Threads that double the queue at the same time do it with pages of their own.
OwnPages ==
  /\ \A t \in PoolThreads : at[t].pc = "double" => at[t].page \in 1 .. pages /\ at[t].n < PageCnt
  /\ \A t, u \in PoolThreads :
       at[t].pc = "double" /\ at[u].pc = "double" /\ at[t].page = at[u].page => t = u

FreeOnce ==
  /\ \A i, j \in 1 .. Len(cells) : cells[i] = cells[j] => i = j
  /\ \A i \in 1 .. Len(cells) : cells[i] \notin inUse /\ Made(cells[i], pages, at)
  /\ \A c \in inUse : Made(c, pages, at)

NoneLost ==
  \A p \in 1 .. pages, i \in 1 .. PageCnt :
    \/ Cell(p, i) \in inUse
    \/ \E k \in 1 .. Len(cells) : cells[k] = Cell(p, i)
    \/ \E t \in PoolThreads : at[t].pc = "double" /\ at[t].page = p /\ at[t].n < i

\* What a thread has made is in the queue, or was taken by others.
MadeOrTaken ==
  \A t \in PoolThreads :
    /\ at[t].pc \in {"double", "pop"} => taken[t] >= PageCnt \/ Len(cells) + taken[t] >= at[t].n
    /\ at[t].pc = "pop" => at[t].n = PageCnt
    /\ at[t].pc = "got" /\ at[t].ret = NULL => taken[t] >= PageCnt

PageInv == PageType /\ OwnPages /\ FreeOnce /\ NoneLost /\ MadeOrTaken

-----------------------------------------------------------------------------
(* The steps                                                               *)

LEMMA HeadTailCells ==
  ASSUME PageType, cells # <<>>
  PROVE  /\ Head(cells) = cells[1] /\ Head(cells) \in AnyCell /\ 1 \in 1 .. Len(cells)
         /\ Tail(cells) \in Seq(AnyCell) /\ Len(Tail(cells)) = Len(cells) - 1
         /\ Len(cells) \in Nat \ {0}
         /\ \A i \in 1 .. Len(cells) - 1 : Tail(cells)[i] = cells[i + 1]
<1>1. cells \in Seq(AnyCell) /\ Len(cells) \in Nat /\ Len(cells) # 0
  BY LenProperties, EmptySeq DEF PageType
<1>2. 1 \in 1 .. Len(cells)
  BY <1>1
<1>3. cells[1] \in AnyCell
  BY <1>1, <1>2, ElementOfSeq
<1> QED BY <1>1, <1>2, <1>3

LEMMA AppendCells ==
  ASSUME PageType, NEW c \in AnyCell
  PROVE  /\ Append(cells, c) \in Seq(AnyCell)
         /\ Len(cells) \in Nat /\ Len(Append(cells, c)) = Len(cells) + 1
         /\ \A i \in 1 .. Len(cells) : Append(cells, c)[i] = cells[i]
         /\ Append(cells, c)[Len(cells) + 1] = c
BY DEF PageType

LEMMA ElsewhereIs ==
  /\ Elsewhere.pc = "out"
  /\ Elsewhere \in [pc : {"out", "double", "pop", "got"}, page : Nat, n : Nat,
                    ret : AnyCell \cup {NULL}]
BY DEF Elsewhere

\* A pop takes a cell out of the queue, whoever does it; nobody doubles by it.
LEMMA PopOK ==
  ASSUME PageInv, NEW t \in PoolThreads, TakeCell(t), cells # <<>>, UNCHANGED pages,
         at' \in [PoolThreads -> [pc : {"out", "double", "pop", "got"}, page : Nat, n : Nat,
                                  ret : AnyCell \cup {NULL}]],
         \A u \in PoolThreads : u # t => at'[u] = at[u],
         at[t].pc # "double", at'[t].pc \in {"out", "got"}, at'[t].pc = "got" => at'[t].ret # NULL
  PROVE  PageInv'
<1>1. /\ cells' = Tail(cells) /\ inUse' = inUse \cup {Head(cells)}
      /\ taken' = [u \in PoolThreads |->
            IF u = t THEN 0
            ELSE IF at[u].pc \in {"double", "pop"} /\ taken[u] < PageCnt THEN taken[u] + 1
            ELSE taken[u]]
  BY DEF TakeCell
<1>2. PageType
  BY DEF PageInv
<1>3. /\ Head(cells) = cells[1] /\ Head(cells) \in AnyCell /\ 1 \in 1 .. Len(cells)
      /\ cells' \in Seq(AnyCell) /\ Len(cells') = Len(cells) - 1
      /\ Len(cells) \in Nat \ {0}
      /\ \A i \in 1 .. Len(cells) - 1 : cells'[i] = cells[i + 1]
  BY <1>1, <1>2, HeadTailCells
<1>4. \A i \in 1 .. Len(cells') : i + 1 \in 1 .. Len(cells) /\ i + 1 # 1 /\ cells'[i] = cells[i + 1]
  BY <1>3
<1>5. \A c : Made(c, pages, at) => Made(c, pages', at')
  BY DEF Made
<1>6. PageType'
  <2>1. taken' \in [PoolThreads -> Nat]
    BY <1>1, <1>2 DEF PageType
  <2> QED BY <1>1, <1>2, <1>3, <2>1 DEF PageType
<1>7. OwnPages'
  BY DEF PageInv, OwnPages
<1>8. FreeOnce'
  <2>1. \A i, j \in 1 .. Len(cells') : cells'[i] = cells'[j] => i = j
    BY <1>3, <1>4 DEF PageInv, FreeOnce
  <2>2. \A i \in 1 .. Len(cells') : cells'[i] \notin inUse' /\ Made(cells[i + 1], pages, at)
    <3> SUFFICES ASSUME NEW i \in 1 .. Len(cells')
                 PROVE  cells'[i] \notin inUse' /\ Made(cells[i + 1], pages, at)
      OBVIOUS
    <3>1. i + 1 \in 1 .. Len(cells) /\ i + 1 # 1 /\ cells'[i] = cells[i + 1]
      BY <1>4
    <3>2. cells[i + 1] \notin inUse /\ Made(cells[i + 1], pages, at)
      BY <3>1 DEF PageInv, FreeOnce
    <3>3. cells[i + 1] # cells[1]
      BY <1>3, <3>1 DEF PageInv, FreeOnce
    <3> QED BY <1>1, <1>3, <3>1, <3>2, <3>3
  <2>3. \A i \in 1 .. Len(cells') : Made(cells'[i], pages', at')
    BY <1>4, <1>5, <2>2
  <2>4. \A c \in inUse' : Made(c, pages', at')
    BY <1>1, <1>3, <1>5 DEF PageInv, FreeOnce
  <2> QED BY <1>5, <2>1, <2>2, <2>3, <2>4 DEF FreeOnce
<1>9. NoneLost'
  <2> SUFFICES ASSUME NEW p \in 1 .. pages, NEW i \in 1 .. PageCnt
               PROVE  \/ Cell(p, i) \in inUse'
                      \/ \E k \in 1 .. Len(cells') : cells'[k] = Cell(p, i)
                      \/ \E u \in PoolThreads :
                           at'[u].pc = "double" /\ at'[u].page = p /\ at'[u].n < i
    BY DEF NoneLost, Cell
  <2>1. CASE Cell(p, i) \in inUse
    BY <1>1, <2>1
  <2>2. CASE \E k \in 1 .. Len(cells) : cells[k] = Cell(p, i)
    <3>1. PICK k \in 1 .. Len(cells) : cells[k] = Cell(p, i)
      BY <2>2
    <3>2. CASE k = 1
      BY <1>1, <1>3, <3>1, <3>2
    <3>3. CASE k # 1
      <4>1. k - 1 \in 1 .. Len(cells') /\ (k - 1) + 1 = k
        BY <1>3, <3>3
      <4>2. cells'[k - 1] = cells[k]
        BY <1>4, <4>1
      <4> QED BY <3>1, <4>1, <4>2
    <3> QED BY <3>2, <3>3
  <2>3. CASE \E u \in PoolThreads : at[u].pc = "double" /\ at[u].page = p /\ at[u].n < i
    BY <2>3
  <2> QED BY <2>1, <2>2, <2>3 DEF PageInv, NoneLost
<1>10. MadeOrTaken'
  <2> SUFFICES ASSUME NEW u \in PoolThreads
               PROVE  /\ at'[u].pc \in {"double", "pop"} =>
                           taken'[u] >= PageCnt \/ Len(cells') + taken'[u] >= at'[u].n
                      /\ at'[u].pc = "pop" => at'[u].n = PageCnt
                      /\ at'[u].pc = "got" /\ at'[u].ret = NULL => taken'[u] >= PageCnt
    BY DEF MadeOrTaken
  <2>1. CASE u = t
    BY <2>1
  <2>2. CASE u # t
    <3>1. at'[u] = at[u] /\ taken[u] \in Nat /\ at[u].n \in Nat /\ PageCnt \in Nat
      BY <2>2, <1>2, PagePoolAssumption DEF PageType
    <3>2. taken'[u] = IF at[u].pc \in {"double", "pop"} /\ taken[u] < PageCnt
                      THEN taken[u] + 1 ELSE taken[u]
      BY <1>1, <2>2
    <3>3. /\ at[u].pc \in {"double", "pop"}
              => taken[u] >= PageCnt \/ Len(cells) + taken[u] >= at[u].n
          /\ at[u].pc = "pop" => at[u].n = PageCnt
          /\ at[u].pc = "got" /\ at[u].ret = NULL => taken[u] >= PageCnt
      BY DEF PageInv, MadeOrTaken
    <3> QED BY <1>3, <3>1, <3>2, <3>3
  <2> QED BY <2>1, <2>2
<1> QED BY <1>6, <1>7, <1>8, <1>9, <1>10 DEF PageInv

\* A cell of another thread's page, or of a user's, is put behind the free ones.
LEMMA PushOK ==
  ASSUME PageInv, NEW t \in PoolThreads, Push(t)
  PROVE  PageInv'
<1> DEFINE c == Cell(at[t].page, at[t].n + 1)
           Tuple == [pc : {"out", "double", "pop", "got"}, page : Nat, n : Nat,
                     ret : AnyCell \cup {NULL}]
<1>1. PageType /\ PageCnt \in Nat \ {0}
  BY PagePoolAssumption DEF PageInv
<1>2. at[t] \in Tuple /\ at[t].pc = "double" /\ at[t].page \in 1 .. pages /\ at[t].n < PageCnt
  BY <1>1 DEF PageInv, PageType, OwnPages, Push
<1>3. /\ cells' = Append(cells, c)
      /\ UNCHANGED <<pages, inUse, taken>>
      /\ at' = [at EXCEPT ![t].n = @ + 1,
                          ![t].pc = IF at[t].n + 1 < PageCnt THEN "double" ELSE "pop"]
  BY DEF Push
<1>4. at \in [PoolThreads -> Tuple] /\ pages \in Nat
  BY <1>1 DEF PageType
<1>5. /\ at'[t] = [at[t] EXCEPT !.n = @ + 1,
                                !.pc = IF at[t].n + 1 < PageCnt THEN "double" ELSE "pop"]
      /\ \A u \in PoolThreads : u # t => at'[u] = at[u]
      /\ DOMAIN at' = PoolThreads
  BY <1>3, <1>4
<1>6. /\ at'[t].n = at[t].n + 1 /\ at'[t].page = at[t].page /\ at'[t].ret = at[t].ret
      /\ at'[t].pc = IF at[t].n + 1 < PageCnt THEN "double" ELSE "pop"
  BY <1>2, <1>5
<1>7. at' \in [PoolThreads -> Tuple]
  <2>1. at'[t] \in Tuple
    <3>1. at'[t] = [pc |-> at'[t].pc, page |-> at'[t].page, n |-> at'[t].n, ret |-> at'[t].ret]
      BY <1>2, <1>5
    <3>2. /\ at'[t].n \in Nat /\ at'[t].page \in Nat
          /\ at'[t].ret \in AnyCell \cup {NULL} /\ at'[t].pc \in {"double", "pop"}
      BY <1>2, <1>6
    <3> QED BY <3>1, <3>2
  <2>2. at' = [u \in PoolThreads |-> at'[u]]
    BY <1>3, <1>4
  <2>3. \A u \in PoolThreads : at'[u] \in Tuple
    BY <1>4, <1>5, <2>1
  <2> QED BY <2>2, <2>3
<1>8. c \in AnyCell /\ c.page = at[t].page /\ c.i = at[t].n + 1
  BY <1>2, <1>4 DEF Cell, AnyCell
<1>9. /\ cells' \in Seq(AnyCell)
      /\ Len(cells) \in Nat /\ Len(cells') = Len(cells) + 1
      /\ \A i \in 1 .. Len(cells) : cells'[i] = cells[i]
      /\ cells'[Len(cells) + 1] = c
  BY <1>1, <1>3, <1>8, AppendCells
<1> HIDE DEF c
<1>10. PageType'
  BY <1>1, <1>3, <1>7, <1>9 DEF PageType
<1>11. ~Made(c, pages, at)
  <2>1. ~(c.i <= at[t].n)
    BY <1>2, <1>8
  <2> QED BY <1>2, <1>8, <2>1 DEF Made
<1>12. Made(c, pages, at')
  <2>1. c.page \in 1 .. pages /\ c.i \in 1 .. PageCnt
    BY <1>1, <1>2, <1>8
  <2>2. \A u \in PoolThreads : at'[u].pc = "double" /\ at'[u].page = c.page => u = t
    BY <1>2, <1>5, <1>8 DEF PageInv, OwnPages
  <2>3. c.i <= at'[t].n
    BY <1>2, <1>6, <1>8
  <2> QED BY <2>1, <2>2, <2>3 DEF Made
<1>13. ASSUME NEW d \in AnyCell, Made(d, pages, at) PROVE Made(d, pages, at')
  <2> SUFFICES ASSUME NEW u \in PoolThreads, at'[u].pc = "double", at'[u].page = d.page
               PROVE  d.i <= at'[u].n
    BY <1>13 DEF Made
  <2>1. CASE u = t
    <3>1. d.i <= at[t].n
      BY <1>2, <1>6, <1>13, <2>1 DEF Made
    <3>2. d.i \in Nat
      BY DEF AnyCell
    <3> QED BY <1>2, <1>6, <2>1, <3>1, <3>2
  <2>2. CASE u # t
    BY <1>5, <1>13, <2>2 DEF Made
  <2> QED BY <2>1, <2>2
<1>14. OwnPages'
  <2>1. \A u \in PoolThreads :
          at'[u].page = at[u].page /\ (at'[u].pc = "double" => at[u].pc = "double")
    BY <1>2, <1>5, <1>6
  <2>2. \A u \in PoolThreads : at'[u].pc = "double" => at'[u].n < PageCnt
    BY <1>5, <1>6 DEF PageInv, OwnPages
  <2>3. /\ \A u \in PoolThreads : at[u].pc = "double" => at[u].page \in 1 .. pages
        /\ \A u, v \in PoolThreads :
             at[u].pc = "double" /\ at[v].pc = "double" /\ at[u].page = at[v].page => u = v
    BY DEF PageInv, OwnPages
  <2> QED BY <1>3, <2>1, <2>2, <2>3 DEF OwnPages
<1>15. FreeOnce'
  <2>1. /\ \A i, j \in 1 .. Len(cells) : cells[i] = cells[j] => i = j
        /\ \A i \in 1 .. Len(cells) : cells[i] \notin inUse /\ Made(cells[i], pages, at)
        /\ \A d \in inUse : Made(d, pages, at)
    BY DEF PageInv, FreeOnce
  <2>2. \A i \in 1 .. Len(cells) : cells[i] \in AnyCell /\ cells[i] # c
    BY <1>1, <1>11, <2>1, ElementOfSeq DEF PageType
  <2>3. c \notin inUse
    BY <1>11, <2>1
  <2>4. \A i \in 1 .. Len(cells') : cells'[i] \notin inUse' /\ Made(cells'[i], pages', at')
    <3>1. \A i \in 1 .. Len(cells) : Made(cells[i], pages, at')
      BY <1>13, <2>1, <2>2
    <3> SUFFICES ASSUME NEW i \in 1 .. Len(cells')
                 PROVE  cells'[i] \notin inUse' /\ Made(cells'[i], pages', at')
      OBVIOUS
    <3>2. CASE i \in 1 .. Len(cells)
      <4>1. cells'[i] = cells[i] /\ cells[i] \notin inUse /\ Made(cells[i], pages, at')
        BY <1>9, <2>1, <3>1, <3>2
      <4> QED BY <1>3, <4>1
    <3>3. CASE i = Len(cells) + 1
      <4>1. cells'[i] = c
        BY <1>9, <3>3
      <4> QED BY <1>3, <1>12, <2>3, <4>1
    <3> QED BY <1>9, <3>2, <3>3
  <2>5. \A i, j \in 1 .. Len(cells') : cells'[i] = cells'[j] => i = j
    BY <1>9, <2>1, <2>2
  <2>6. \A d \in inUse' : Made(d, pages', at')
    BY <1>1, <1>3, <1>13, <2>1 DEF PageType
  <2> QED BY <2>4, <2>5, <2>6 DEF FreeOnce
<1>16. NoneLost'
  <2> SUFFICES ASSUME NEW p \in 1 .. pages, NEW i \in 1 .. PageCnt
               PROVE  \/ Cell(p, i) \in inUse
                      \/ \E k \in 1 .. Len(cells') : cells'[k] = Cell(p, i)
                      \/ \E u \in PoolThreads :
                           at'[u].pc = "double" /\ at'[u].page = p /\ at'[u].n < i
    BY <1>3 DEF NoneLost, Cell
  <2>1. CASE Cell(p, i) \in inUse
    BY <2>1
  <2>2. CASE \E k \in 1 .. Len(cells) : cells[k] = Cell(p, i)
    <3>1. PICK k \in 1 .. Len(cells) : cells[k] = Cell(p, i)
      BY <2>2
    <3>2. k \in 1 .. Len(cells') /\ cells'[k] = Cell(p, i)
      BY <1>9, <3>1
    <3> QED BY <3>2
  <2>3. CASE \E u \in PoolThreads : at[u].pc = "double" /\ at[u].page = p /\ at[u].n < i
    <3>1. PICK u \in PoolThreads : at[u].pc = "double" /\ at[u].page = p /\ at[u].n < i
      BY <2>3
    <3>2. CASE u # t
      BY <1>5, <3>1, <3>2
    <3>3. CASE u = t /\ i = at[t].n + 1
      <4>1. Cell(p, i) = c
        BY <3>1, <3>3 DEF c
      <4>2. Len(cells) + 1 \in 1 .. Len(cells')
        BY <1>9
      <4> QED BY <1>9, <4>1, <4>2
    <3>4. CASE u = t /\ i # at[t].n + 1
      <4>1. at[t].n + 1 < i /\ at[t].n + 1 < PageCnt
        BY <1>1, <1>2, <3>1, <3>4
      <4> QED BY <1>6, <3>1, <3>4, <4>1
    <3> QED BY <3>2, <3>3, <3>4
  <2> QED BY <2>1, <2>2, <2>3 DEF PageInv, NoneLost
<1>17. MadeOrTaken'
  <2> SUFFICES ASSUME NEW u \in PoolThreads
               PROVE  /\ at'[u].pc \in {"double", "pop"} =>
                           taken'[u] >= PageCnt \/ Len(cells') + taken'[u] >= at'[u].n
                      /\ at'[u].pc = "pop" => at'[u].n = PageCnt
                      /\ at'[u].pc = "got" /\ at'[u].ret = NULL => taken'[u] >= PageCnt
    BY DEF MadeOrTaken
  <2>1. /\ at[u].pc \in {"double", "pop"} => taken[u] >= PageCnt \/ Len(cells) + taken[u] >= at[u].n
        /\ at[u].pc = "pop" => at[u].n = PageCnt
        /\ at[u].pc = "got" /\ at[u].ret = NULL => taken[u] >= PageCnt
    BY DEF PageInv, MadeOrTaken
  <2>2. taken'[u] = taken[u] /\ taken[u] \in Nat /\ at[u].n \in Nat
    BY <1>1, <1>3 DEF PageType
  <2>3. CASE u = t
    BY <1>1, <1>2, <1>6, <1>9, <2>1, <2>2, <2>3
  <2>4. CASE u # t
    BY <1>1, <1>5, <1>9, <2>1, <2>2, <2>4
  <2> QED BY <2>3, <2>4
<1> QED BY <1>10, <1>14, <1>15, <1>16, <1>17 DEF PageInv

LEMMA DeallocOK ==
  ASSUME PageInv, NEW c \in inUse, Dealloc(c)
  PROVE  PageInv'
<1>1. PageType
  BY DEF PageInv
<1>2. cells' = Append(cells, c) /\ inUse' = inUse \ {c} /\ UNCHANGED <<pages, at, taken>>
  BY DEF Dealloc
<1>3. c \in AnyCell
  BY <1>1 DEF PageType
<1>4. /\ cells' \in Seq(AnyCell)
      /\ Len(cells) \in Nat /\ Len(cells') = Len(cells) + 1
      /\ \A i \in 1 .. Len(cells) : cells'[i] = cells[i]
      /\ cells'[Len(cells) + 1] = c
  BY <1>1, <1>2, <1>3, AppendCells
<1>5. PageType'
  BY <1>1, <1>2, <1>4 DEF PageType
<1>6. OwnPages'
  BY <1>2 DEF PageInv, OwnPages
<1>7. FreeOnce'
  <2>1. /\ \A i, j \in 1 .. Len(cells) : cells[i] = cells[j] => i = j
        /\ \A i \in 1 .. Len(cells) : cells[i] \notin inUse /\ Made(cells[i], pages, at)
        /\ \A d \in inUse : Made(d, pages, at)
    BY DEF PageInv, FreeOnce
  <2>2. \A i \in 1 .. Len(cells) : cells[i] # c
    BY <2>1
  <2>3. \A i \in 1 .. Len(cells') : cells'[i] \notin inUse' /\ Made(cells'[i], pages', at')
    BY <1>2, <1>4, <2>1
  <2>4. \A i, j \in 1 .. Len(cells') : cells'[i] = cells'[j] => i = j
    BY <1>4, <2>1, <2>2
  <2>5. \A d \in inUse' : Made(d, pages', at')
    BY <1>2, <2>1
  <2> QED BY <2>3, <2>4, <2>5 DEF FreeOnce
<1>8. NoneLost'
  <2> SUFFICES ASSUME NEW p \in 1 .. pages, NEW i \in 1 .. PageCnt
               PROVE  \/ Cell(p, i) \in inUse'
                      \/ \E k \in 1 .. Len(cells') : cells'[k] = Cell(p, i)
                      \/ \E u \in PoolThreads :
                           at[u].pc = "double" /\ at[u].page = p /\ at[u].n < i
    BY <1>2 DEF NoneLost, Cell
  <2>1. CASE Cell(p, i) \in inUse
    <3>1. Len(cells) + 1 \in 1 .. Len(cells')
      BY <1>4
    <3> QED BY <1>2, <1>4, <2>1, <3>1
  <2>2. CASE \E k \in 1 .. Len(cells) : cells[k] = Cell(p, i)
    <3>1. PICK k \in 1 .. Len(cells) : cells[k] = Cell(p, i)
      BY <2>2
    <3>2. k \in 1 .. Len(cells') /\ cells'[k] = Cell(p, i)
      BY <1>4, <3>1
    <3> QED BY <3>2
  <2> QED BY <2>1, <2>2 DEF PageInv, NoneLost
<1>9. MadeOrTaken'
  <2> SUFFICES ASSUME NEW u \in PoolThreads
               PROVE  at[u].pc \in {"double", "pop"} =>
                        taken[u] >= PageCnt \/ Len(cells') + taken[u] >= at[u].n
    BY <1>2 DEF PageInv, MadeOrTaken
  <2>1. at[u].pc \in {"double", "pop"} => taken[u] >= PageCnt \/ Len(cells) + taken[u] >= at[u].n
    BY DEF PageInv, MadeOrTaken
  <2>2. taken[u] \in Nat /\ at[u].n \in Nat
    BY <1>1 DEF PageType
  <2> QED BY <1>4, <2>1, <2>2
<1> QED BY <1>5, <1>6, <1>7, <1>8, <1>9 DEF PageInv

\* Alloc, when the queue is empty: the thread has a page of its own to make cells in.
LEMMA DoubleOK ==
  ASSUME PageInv, NEW t \in PoolThreads, Alloc(t), cells = <<>>
  PROVE  PageInv'
<1> DEFINE Tuple == [pc : {"out", "double", "pop", "got"}, page : Nat, n : Nat,
                     ret : AnyCell \cup {NULL}]
           e == [Elsewhere EXCEPT !.pc = "double", !.page = pages + 1]
<1>1. PageType /\ PageCnt \in Nat \ {0}
  BY PagePoolAssumption DEF PageInv
<1>2. /\ pages' = pages + 1 /\ at' = [at EXCEPT ![t] = e] /\ taken' = [taken EXCEPT ![t] = 0]
      /\ UNCHANGED <<cells, inUse>>
  BY DEF Alloc
<1>3. pages \in Nat \ {0} /\ at \in [PoolThreads -> Tuple] /\ taken \in [PoolThreads -> Nat]
  BY <1>1 DEF PageType
<1>4. /\ e.pc = "double" /\ e.page = pages + 1 /\ e.n = 0 /\ e.ret = NULL
      /\ e \in Tuple
  <2>1. e.pc = "double" /\ e.page = pages + 1 /\ e.n = 0 /\ e.ret = NULL
    BY DEF Elsewhere
  <2>2. pages + 1 \in Nat /\ "double" \in {"out", "double", "pop", "got"}
    BY <1>3
  <2>3. Elsewhere \in Tuple
    BY ElsewhereIs
  <2>4. e \in Tuple
    BY <2>2, <2>3
  <2> QED BY <2>1, <2>4
<1> HIDE DEF e
<1>5. /\ at' \in [PoolThreads -> Tuple] /\ at'[t] = e
      /\ \A u \in PoolThreads : u # t => at'[u] = at[u]
  BY <1>2, <1>3, <1>4
<1>6. PageType'
  BY <1>1, <1>2, <1>3, <1>5 DEF PageType
<1>7. OwnPages'
  <2>1. /\ \A u \in PoolThreads :
             at[u].pc = "double" => at[u].page \in 1 .. pages /\ at[u].n < PageCnt
        /\ \A u, v \in PoolThreads :
             at[u].pc = "double" /\ at[v].pc = "double" /\ at[u].page = at[v].page => u = v
    BY DEF PageInv, OwnPages
  <2>2. \A u \in PoolThreads :
          at'[u].pc = "double" => at'[u].page \in 1 .. pages' /\ at'[u].n < PageCnt
    BY <1>1, <1>2, <1>3, <1>4, <1>5, <2>1
  <2>3. \A u, v \in PoolThreads :
          at'[u].pc = "double" /\ at'[v].pc = "double" /\ at'[u].page = at'[v].page => u = v
    <3> SUFFICES ASSUME NEW u \in PoolThreads, NEW v \in PoolThreads,
                        at'[u].pc = "double", at'[v].pc = "double", at'[u].page = at'[v].page
                 PROVE  u = v
      OBVIOUS
    <3>1. \A w \in PoolThreads : at[w].pc = "double" => at[w].page # pages + 1
      BY <1>3, <2>1
    <3> QED BY <1>4, <1>5, <2>1, <3>1
  <2> QED BY <2>2, <2>3 DEF OwnPages
<1>8. \A c : Made(c, pages, at) => Made(c, pages', at')
  <2> SUFFICES ASSUME NEW c, Made(c, pages, at) PROVE Made(c, pages', at')
    OBVIOUS
  <2>1. c.page \in 1 .. pages /\ c.page \in 1 .. pages' /\ c.page # pages + 1
    BY <1>2, <1>3 DEF Made
  <2> QED BY <1>4, <1>5, <2>1 DEF Made
<1>9. FreeOnce'
  <2>1. cells' = cells /\ 1 .. Len(cells) = {}
    BY <1>2
  <2>2. \A c \in inUse' : Made(c, pages', at')
    BY <1>2, <1>8 DEF PageInv, FreeOnce
  <2> QED BY <2>1, <2>2 DEF FreeOnce
<1>10. NoneLost'
  <2> SUFFICES ASSUME NEW p \in 1 .. pages', NEW i \in 1 .. PageCnt
               PROVE  \/ Cell(p, i) \in inUse'
                      \/ \E k \in 1 .. Len(cells') : cells'[k] = Cell(p, i)
                      \/ \E u \in PoolThreads :
                           at'[u].pc = "double" /\ at'[u].page = p /\ at'[u].n < i
    BY DEF NoneLost, Cell
  <2>1. CASE p = pages + 1
    BY <1>1, <1>4, <1>5, <2>1
  <2>2. CASE p # pages + 1
    <3>1. p \in 1 .. pages
      BY <1>2, <1>3, <2>2
    <3>2. \A u \in PoolThreads : at[u].pc = "double" => u # t
      BY DEF Alloc
    <3>3. cells' = cells /\ inUse' = inUse
      BY <1>2
    <3> QED BY <1>5, <3>1, <3>2, <3>3 DEF PageInv, NoneLost
  <2> QED BY <2>1, <2>2
<1>11. MadeOrTaken'
  <2> SUFFICES ASSUME NEW u \in PoolThreads
               PROVE  /\ at'[u].pc \in {"double", "pop"} =>
                           taken'[u] >= PageCnt \/ Len(cells') + taken'[u] >= at'[u].n
                      /\ at'[u].pc = "pop" => at'[u].n = PageCnt
                      /\ at'[u].pc = "got" /\ at'[u].ret = NULL => taken'[u] >= PageCnt
    BY DEF MadeOrTaken
  <2>1. CASE u = t
    <3>1. Len(cells') = 0 /\ taken'[u] = 0
      BY <1>2, <1>3, <2>1
    <3> QED BY <1>4, <1>5, <2>1, <3>1
  <2>2. CASE u # t
    <3>1. taken'[u] = taken[u]
      BY <1>2, <1>3, <2>2
    <3> QED BY <1>2, <1>5, <2>2, <3>1 DEF PageInv, MadeOrTaken
  <2> QED BY <2>1, <2>2
<1> QED BY <1>6, <1>7, <1>9, <1>10, <1>11 DEF PageInv

LEMMA AllocOK ==
  ASSUME PageInv, NEW t \in PoolThreads, Alloc(t)
  PROVE  PageInv'
<1>1. CASE cells = <<>>
  BY <1>1, DoubleOK
<1>2. CASE cells # <<>>
  <2>1. TakeCell(t) /\ UNCHANGED <<pages, at>> /\ at[t].pc = "out"
    BY <1>2 DEF Alloc
  <2>2. at \in [PoolThreads -> [pc : {"out", "double", "pop", "got"}, page : Nat, n : Nat,
                                ret : AnyCell \cup {NULL}]]
    BY DEF PageInv, PageType
  <2> QED BY <1>2, <2>1, <2>2, PopOK
<1> QED BY <1>1, <1>2

\* The thread comes to an end of Alloc, with or without a cell.
LEMMA LeaveOK ==
  ASSUME PageInv, NEW t \in PoolThreads, at[t].pc \in {"pop", "got"},
         NEW e \in [pc : {"out", "got"}, page : Nat, n : Nat, ret : AnyCell \cup {NULL}],
         at' = [at EXCEPT ![t] = e], UNCHANGED <<pages, cells, inUse>>,
         taken' \in [PoolThreads -> Nat], \A u \in PoolThreads : u # t => taken'[u] = taken[u],
         e.pc = "got" /\ e.ret = NULL => taken'[t] >= PageCnt
  PROVE  PageInv'
<1> DEFINE Tuple == [pc : {"out", "double", "pop", "got"}, page : Nat, n : Nat,
                     ret : AnyCell \cup {NULL}]
<1>1. PageType /\ at \in [PoolThreads -> Tuple] /\ e \in Tuple
  BY DEF PageInv, PageType
<1>2. /\ at' \in [PoolThreads -> Tuple] /\ at'[t] = e
      /\ \A u \in PoolThreads : u # t => at'[u] = at[u]
  BY <1>1
<1>3. at'[t].pc \in {"out", "got"} /\ at[t].pc # "double"
  BY <1>2
<1>4. PageType'
  BY <1>1, <1>2 DEF PageType
<1>5. OwnPages'
  BY <1>2, <1>3 DEF PageInv, OwnPages
<1>6. \A c : Made(c, pages, at) => Made(c, pages', at')
  BY <1>2, <1>3 DEF Made
<1>7. FreeOnce'
  <2>1. \A i \in 1 .. Len(cells) : cells[i] \notin inUse /\ Made(cells[i], pages', at')
    BY <1>6 DEF PageInv, FreeOnce
  <2>2. \A c \in inUse : Made(c, pages', at')
    BY <1>6 DEF PageInv, FreeOnce
  <2> QED BY <2>1, <2>2 DEF PageInv, FreeOnce
<1>8. NoneLost'
  <2> SUFFICES ASSUME NEW p \in 1 .. pages', NEW i \in 1 .. PageCnt
               PROVE  \/ Cell(p, i) \in inUse'
                      \/ \E k \in 1 .. Len(cells') : cells'[k] = Cell(p, i)
                      \/ \E u \in PoolThreads :
                           at'[u].pc = "double" /\ at'[u].page = p /\ at'[u].n < i
    BY DEF NoneLost, Cell
  <2>1. p \in 1 .. pages /\ cells' = cells /\ inUse' = inUse
    OBVIOUS
  <2> QED BY <1>2, <1>3, <2>1 DEF PageInv, NoneLost
<1>9. MadeOrTaken'
  BY <1>2, <1>3 DEF PageInv, MadeOrTaken
<1> QED BY <1>4, <1>5, <1>7, <1>8, <1>9 DEF PageInv

LEMMA PopAgainOK ==
  ASSUME PageInv, NEW t \in PoolThreads, PopAgain(t)
  PROVE  PageInv'
<1>1. /\ PageType /\ at[t].pc = "pop" /\ UNCHANGED pages /\ PageCnt \in Nat
      /\ at \in [PoolThreads -> [pc : {"out", "double", "pop", "got"}, page : Nat, n : Nat,
                                 ret : AnyCell \cup {NULL}]]
  BY PagePoolAssumption DEF PageInv, PageType, PopAgain
<1>2. ASSUME NEW r \in AnyCell \cup {NULL}
      PROVE  /\ [Elsewhere EXCEPT !.pc = "got", !.ret = r].pc = "got"
             /\ [Elsewhere EXCEPT !.pc = "got", !.ret = r].ret = r
             /\ [Elsewhere EXCEPT !.pc = "got", !.ret = r]
                  \in [pc : {"out", "got"}, page : Nat, n : Nat, ret : AnyCell \cup {NULL}]
  BY DEF Elsewhere
<1>3. CASE cells = <<>>
  <2> DEFINE e == [Elsewhere EXCEPT !.pc = "got", !.ret = NULL]
  <2>1. at' = [at EXCEPT ![t] = e] /\ UNCHANGED <<pages, cells, inUse, taken>>
    BY <1>1, <1>3 DEF PopAgain, Got
  <2>2. taken[t] >= PageCnt
    <3>1. /\ taken[t] >= PageCnt \/ Len(cells) + taken[t] >= at[t].n
          /\ at[t].n = PageCnt
      BY <1>1 DEF PageInv, MadeOrTaken
    <3>2. Len(cells) = 0 /\ taken[t] \in Nat
      BY <1>1, <1>3 DEF PageType
    <3> QED BY <1>1, <3>1, <3>2
  <2>3. taken' \in [PoolThreads -> Nat]
    BY <1>1, <2>1 DEF PageType
  <2>4. e \in [pc : {"out", "got"}, page : Nat, n : Nat, ret : AnyCell \cup {NULL}]
    BY <1>2
  <2> HIDE DEF e
  <2> QED BY <1>1, <2>1, <2>2, <2>3, <2>4, LeaveOK
<1>4. CASE cells # <<>>
  <2> DEFINE e == [Elsewhere EXCEPT !.pc = "got", !.ret = Head(cells)]
  <2>1. TakeCell(t) /\ at' = [at EXCEPT ![t] = e]
    BY <1>4 DEF PopAgain, Got
  <2>2. Head(cells) \in AnyCell /\ NULL \notin AnyCell
    BY <1>1, <1>4, HeadTailCells, PagePoolAssumption DEF AnyCell
  <2>3. /\ e.pc = "got" /\ e.ret # NULL
        /\ e \in [pc : {"out", "got"}, page : Nat, n : Nat, ret : AnyCell \cup {NULL}]
    BY <1>2, <2>2
  <2> HIDE DEF e
  <2>4. /\ at' \in [PoolThreads -> [pc : {"out", "double", "pop", "got"}, page : Nat, n : Nat,
                                    ret : AnyCell \cup {NULL}]]
        /\ at'[t] = e /\ \A u \in PoolThreads : u # t => at'[u] = at[u]
    BY <1>1, <2>1, <2>3
  <2> QED BY <1>1, <1>4, <2>1, <2>3, <2>4, PopOK
<1> QED BY <1>3, <1>4

LEMMA AllocReturnsOK ==
  ASSUME PageInv, NEW t \in PoolThreads, AllocReturns(t)
  PROVE  PageInv'
<1>1. /\ at[t].pc = "got" /\ at' = [at EXCEPT ![t] = Elsewhere]
      /\ taken' = [taken EXCEPT ![t] = 0] /\ UNCHANGED <<pages, cells, inUse>>
  BY DEF AllocReturns
<1>2. taken \in [PoolThreads -> Nat]
  BY DEF PageInv, PageType
<1>3. taken' \in [PoolThreads -> Nat] /\ \A u \in PoolThreads : u # t => taken'[u] = taken[u]
  BY <1>1, <1>2
<1>4. /\ Elsewhere \in [pc : {"out", "got"}, page : Nat, n : Nat, ret : AnyCell \cup {NULL}]
      /\ Elsewhere.pc = "out"
  BY DEF Elsewhere
<1> QED BY <1>1, <1>3, <1>4, LeaveOK

LEMMA PageInvInit == PageInit => PageInv
<1> SUFFICES ASSUME PageInit PROVE PageInv
  OBVIOUS
<1> DEFINE f == [i \in 1 .. PageCnt |-> Cell(1, i)]
<1>1. /\ pages = 1 /\ cells = f /\ inUse = {}
      /\ at = [t \in PoolThreads |-> Elsewhere] /\ taken = [t \in PoolThreads |-> 0]
  BY DEF PageInit
<1>2. PageCnt \in Nat \ {0}
  BY PagePoolAssumption
<1>3. \A i \in 1 .. PageCnt :
        f[i] = Cell(1, i) /\ f[i].page = 1 /\ f[i].i = i /\ f[i] \in AnyCell
  BY DEF Cell, AnyCell
<1>4. f \in [1 .. PageCnt -> AnyCell]
  BY <1>3
<1>5. f \in Seq(AnyCell) /\ Len(f) = PageCnt
  BY <1>2, <1>4
<1> HIDE DEF f
<1>6. \A t \in PoolThreads : at[t] = Elsewhere /\ taken[t] = 0 /\ at[t].pc = "out"
  BY <1>1, ElsewhereIs
<1>7. PageType
  BY <1>1, <1>5, ElsewhereIs DEF PageType
<1>8. OwnPages /\ MadeOrTaken
  BY <1>6 DEF OwnPages, MadeOrTaken
<1>9. FreeOnce
  <2>1. \A i \in 1 .. PageCnt : Made(f[i], pages, at)
    BY <1>1, <1>3, <1>6 DEF Made
  <2>2. \A i, j \in 1 .. PageCnt : f[i] = f[j] => i = j
    BY <1>3
  <2> QED BY <1>1, <1>5, <2>1, <2>2 DEF FreeOnce
<1>10. NoneLost
  BY <1>1, <1>3, <1>5 DEF NoneLost
<1> QED BY <1>7, <1>8, <1>9, <1>10 DEF PageInv

-----------------------------------------------------------------------------
(* The theorems                                                            *)

\* In every reachable state each cell that was made is in one place.
THEOREM PageInvariant == PageSpec => []PageInv
<1>1. PageInv /\ [PageNext]_pageVars => PageInv'
  <2> SUFFICES ASSUME PageInv, [PageNext]_pageVars PROVE PageInv'
    OBVIOUS
  <2>1. CASE UNCHANGED pageVars
    BY <2>1 DEF pageVars, PageInv, PageType, OwnPages, FreeOnce, NoneLost, MadeOrTaken
  <2> QED BY <2>1, AllocOK, PushOK, PopAgainOK, AllocReturnsOK, DeallocOK DEF PageNext
<1> QED BY <1>1, PageInvInit, PTL DEF PageSpec

\* No cell is given out twice at a time and none is lost; Alloc returns NULL after it has
\* doubled the queue only when others took as many cells as it made.
THEOREM PageCellsOnce == PageSpec => []CellsOnce
<1>1. PageInv => CellsOnce
  <2> SUFFICES ASSUME PageInv PROVE CellsOnce
    OBVIOUS
  <2> DEFINE n == Len(cells)
             Free == ToSet(cells)
  <2>1. /\ cells \in Seq(AnyCell) /\ n \in Nat
        /\ DOMAIN cells = 1 .. n /\ cells \in [1 .. n -> AnyCell]
    BY LenProperties DEF PageInv, PageType
  <2>2. Free = {cells[i] : i \in 1 .. n}
    BY <2>1 DEF ToSet
  <2>3. Len(cells) = Cardinality(ToSet(cells))
    <3>1. cells \in [1 .. n -> Free] /\ \A c \in Free : \E i \in 1 .. n : cells[i] = c
      BY <2>1, <2>2
    <3>2. \A i, j \in 1 .. n : cells[i] = cells[j] => i = j
      BY DEF PageInv, FreeOnce
    <3>3. IsFiniteSet(1 .. n) /\ Cardinality(1 .. n) = n
      BY <2>1, FS_Interval
    <3> HIDE DEF n, Free
    <3>4. cells \in Bijection(1 .. n, Free)
      BY <2>1, <3>1, <3>2 DEF Bijection, Injection, Surjection, IsInjective
    <3>5. ExistsBijection(1 .. n, Free)
      BY <3>4 DEF ExistsBijection
    <3>6. Cardinality(1 .. n) = Cardinality(Free)
      BY <3>3, <3>5, FS_Bijection
    <3> QED BY <3>3, <3>6 DEF n, Free
  <2>4. ToSet(cells) \cap inUse = {}
    BY <2>2 DEF PageInv, FreeOnce
  <2>5. \A p \in 1 .. pages, i \in 1 .. PageCnt :
          Cell(p, i) \in ToSet(cells) \cup inUse
            \/ \E t \in PoolThreads : at[t].pc = "double" /\ at[t].page = p /\ at[t].n < i
    BY <2>2 DEF PageInv, NoneLost
  <2>6. \A t \in PoolThreads : at[t].pc = "got" /\ at[t].ret = NULL => taken[t] >= PageCnt
    BY DEF PageInv, MadeOrTaken
  <2> QED BY <2>3, <2>4, <2>5, <2>6 DEF CellsOnce
<1> QED BY <1>1, PageInvariant, PTL

-----------------------------------------------------------------------------
(* LevelPool                                                               *)

-----------------------------------------------------------------------------
(* Blocks of levels                                                        *)

\* The levels and the sizes of the queues.
LEMMA LevelsOK ==
  /\ MaxLevel \in Nat /\ MaxLvCnt \in Nat \ {0} /\ MaxChunks \in Nat \ {0} /\ Levels = 0 .. MaxLevel
  /\ \A lv \in 1 .. MaxLevel : lv \in Levels /\ lv - 1 \in Levels /\ lv # lv - 1
BY LevelPoolAssumption DEF Levels

\* A block of a level is as large as two of the level below.
LEMMA SizeOK ==
  /\ LevelSize \in [Levels -> Nat \ {0}]
  /\ \A lv \in 1 .. MaxLevel : LevelSize[lv] = 2 * LevelSize[lv - 1]
<1> DEFINE S == Nat \ {0}
           N == MaxLevel
           G == [x \in (1 .. N) \X S |-> 2 * x[2]]
<1>1. N \in Nat /\ Levels = 0 .. N
  BY LevelsOK
<1>2. \A a \in S : 2 * a \in S
  OBVIOUS
<1>3. G \in [(1 .. N) \X S -> S]
  BY <1>2
<1>4. 1 \in S
  OBVIOUS
<1>5. \A k \in 1 .. N : k - 1 \in 0 .. N /\ k \in 0 .. N /\ k # 0
  BY <1>1
<1>6. \A k \in 0 .. N : k # 0 => k \in 1 .. N
  BY <1>1
<1> HIDE DEF S, G
<1>7. PICK f : Runs(f, N, S, 1, G)
  BY <1>1, <1>3, <1>4, Passes
<1>8. f \in [0 .. N -> S] /\ f[0] = 1 /\ \A k \in 1 .. N : f[k] = 2 * f[k - 1]
  BY <1>5, <1>7 DEF G, Runs
<1>9. f = [k \in Levels |-> IF k = 0 THEN 1 ELSE 2 * f[k - 1]]
  BY <1>1, <1>6, <1>8
<1> DEFINE h == CHOOSE g : g = [k \in Levels |-> IF k = 0 THEN 1 ELSE 2 * g[k - 1]]
<1>10. h = [k \in Levels |-> IF k = 0 THEN 1 ELSE 2 * h[k - 1]]
  BY <1>9
<1>11. LevelSize = h
  BY DEF LevelSize
<1> HIDE DEF h
<1>12. h[0] = 1 /\ \A k \in 1 .. N : h[k] = 2 * h[k - 1]
  BY <1>1, <1>5, <1>10
<1>13. \A k \in 1 .. N : h[k - 1] \in S => h[k] \in S
  BY <1>2, <1>12
<1>14. \A k \in 0 .. N : h[k] \in S
  BY ONLY <1>1, <1>4, <1>12, <1>13, Kept
<1>15. h \in [Levels -> S]
  BY <1>1, <1>10, <1>14
<1> QED BY <1>11, <1>12, <1>15 DEF S

\* The units of a chunk, and the blocks in n of them.
Chunk   == MaxLvCnt * LevelSize[MaxLevel]
Mem(n)  == [chunk : 1 .. n, off : Nat]

\* Queues and used blocks that lie within n chunks.
Queues(n) ==
  {q \in [Levels -> Seq(Mem(n))] :
     \A lv \in Levels : \A i \in 1 .. Len(q[lv]) : q[lv][i].off + LevelSize[lv] <= Chunk}
Given(n) == {x \in [block : Mem(n), lv : Levels] : x.block.off + LevelSize[x.lv] <= Chunk}

\* Every unit of n chunks is in one block of K.
Tiled(K, n) ==
  \A c \in 1 .. n : \A u \in 0 .. Chunk - 1 :
    \E x \in K : HasUnit(x, c, u) /\ \A y \in K : HasUnit(y, c, u) => y = x

\* No chunk is empty.
LEMMA ChunkOK == Chunk \in Nat \ {0}
<1>1. MaxLvCnt \in Nat \ {0} /\ LevelSize[MaxLevel] \in Nat \ {0}
  BY LevelsOK, SizeOK
<1>2. \A a, b \in Nat \ {0} : a * b \in Nat \ {0}
  OBVIOUS
<1> QED BY <1>1, <1>2 DEF Chunk

\* Where every block of J comes from one of K, and those that come from one part its units.
LEMMA Retiled ==
  ASSUME NEW K, NEW J, NEW f, NEW n, Tiled(K, n),
         \A j \in J : f[j] \in K,
         \A j \in J : \A c : \A u \in 0 .. Chunk - 1 : HasUnit(j, c, u) => HasUnit(f[j], c, u),
         \A k \in K : \A c \in 1 .. n : \A u \in 0 .. Chunk - 1 :
           HasUnit(k, c, u) => \E j \in J : f[j] = k /\ HasUnit(j, c, u),
         \A i, j \in J : \A c : \A u \in 0 .. Chunk - 1 :
           f[i] = f[j] /\ HasUnit(i, c, u) /\ HasUnit(j, c, u) => i = j
  PROVE  Tiled(J, n)
<1> SUFFICES ASSUME NEW c \in 1 .. n, NEW u \in 0 .. Chunk - 1
             PROVE  \E x \in J : HasUnit(x, c, u) /\ \A y \in J : HasUnit(y, c, u) => y = x
  BY DEF Tiled
<1>1. PICK k \in K : HasUnit(k, c, u) /\ \A y \in K : HasUnit(y, c, u) => y = k
  BY DEF Tiled
<1>2. PICK x \in J : f[x] = k /\ HasUnit(x, c, u)
  BY <1>1
<1>3. ASSUME NEW y \in J, HasUnit(y, c, u) PROVE y = x
  <2>1. f[y] \in K /\ HasUnit(f[y], c, u)
    BY <1>3
  <2>2. f[y] = k
    BY <1>1, <2>1
  <2> QED BY <1>2, <1>3, <2>2
<1> QED BY <1>2, <1>3

\* A member of AllBlocks.
At(b, lv, i) == [block |-> b, lv |-> lv, at |-> i]

\* A block is used or in a queue.
LEMMA BlocksAre ==
  ASSUME NEW q, NEW U
  PROVE  /\ \A y \in U : At(y.block, y.lv, 0) \in AllBlocks(q, U)
         /\ \A lv \in Levels : \A i \in 1 .. Len(q[lv]) : At(q[lv][i], lv, i) \in AllBlocks(q, U)
         /\ \A x \in AllBlocks(q, U) :
              \/ \E y \in U : x = At(y.block, y.lv, 0)
              \/ \E lv \in Levels : \E i \in 1 .. Len(q[lv]) : x = At(q[lv][i], lv, i)
BY DEF AllBlocks, At

\* A block is what it is at.
LEMMA AtIs ==
  /\ \A b, lv, i : At(b, lv, i).block = b /\ At(b, lv, i).lv = lv /\ At(b, lv, i).at = i
  /\ \A b, lv, i, d, mv, j : At(b, lv, i) = At(d, mv, j) <=> b = d /\ lv = mv /\ i = j
BY DEF At

\* The units of a block.
LEMMA HasIs ==
  \A b, lv, i, c, u : HasUnit(At(b, lv, i), c, u) <=>
    b.chunk = c /\ b.off <= u /\ u < b.off + LevelSize[lv]
BY DEF HasUnit, At

\* The blocks of q and U tile n chunks.
Sound(q, U, n) == q \in Queues(n) /\ U \subseteq Given(n) /\ Tiled(AllBlocks(q, U), n)

\* What a queue holds.
LEMMA LevelQueueOK ==
  ASSUME NEW n \in Nat, NEW q \in Queues(n), NEW lv \in Levels
  PROVE  /\ q \in [Levels -> Seq(Mem(n))] /\ q[lv] \in Seq(Mem(n)) /\ Len(q[lv]) \in Nat
         /\ \A i \in 1 .. Len(q[lv]) :
              /\ q[lv][i] \in Mem(n) /\ q[lv][i].chunk \in 1 .. n /\ q[lv][i].off \in Nat
              /\ q[lv][i].off + LevelSize[lv] <= Chunk
<1>1. q[lv] \in Seq(Mem(n)) /\ q \in [Levels -> Seq(Mem(n))]
  BY DEF Queues
<1>2. \A i \in 1 .. Len(q[lv]) : q[lv][i] \in Mem(n)
  BY <1>1
<1>3. \A b \in Mem(n) : b.chunk \in 1 .. n /\ b.off \in Nat
  BY DEF Mem
<1> QED BY <1>1, <1>2, <1>3 DEF Queues

-----------------------------------------------------------------------------
(* Splitting                                                               *)

\* What a pass of _Split does to the two queues.
SplitOff(q, r, lv) ==
  LET m == Len(q[lv - 1])
      h == q[lv][1]
  IN  /\ Len(r[lv]) = Len(q[lv]) - 1
      /\ \A i \in 1 .. Len(r[lv]) : r[lv][i] = q[lv][i + 1]
      /\ Len(r[lv - 1]) = m + 2
      /\ \A i \in 1 .. m : r[lv - 1][i] = q[lv - 1][i]
      /\ r[lv - 1][m + 1] = h
      /\ r[lv - 1][m + 2] = Block(h.chunk, h.off + LevelSize[lv - 1])
      /\ \A l \in Levels : l # lv /\ l # lv - 1 => r[l] = q[l]

\* What SplitBlock does, element by element.
LEMMA SplitShape ==
  ASSUME NEW n \in Nat, NEW q \in Queues(n), NEW lv \in 1 .. MaxLevel, q[lv] # <<>>,
         NEW r, r = SplitBlock(q, lv)
  PROVE  r \in Queues(n) /\ SplitOff(q, r, lv)
<1> DEFINE T == Mem(n)
           a == q[lv]
           b == q[lv - 1]
           m == Len(b)
           h == a[1]
           z == LevelSize[lv - 1]
           g == Block(h.chunk, h.off + z)
           d == b \o <<h, g>>
<1>1. lv \in Levels /\ lv - 1 \in Levels /\ lv # lv - 1
  BY LevelsOK
<1>2. a \in Seq(T) /\ b \in Seq(T) /\ m \in Nat /\ q \in [Levels -> Seq(T)]
  BY <1>1, LevelQueueOK
<1>3. a # <<>> /\ Len(a) \in Nat /\ Len(a) >= 1
  BY <1>2, EmptySeq
<1>4. Head(a) = h
  BY <1>2, <1>3
<1>5. h \in T /\ h.chunk \in 1 .. n /\ h.off \in Nat /\ h.off + LevelSize[lv] <= Chunk
  BY <1>1, <1>3, LevelQueueOK
<1>6. z \in Nat \ {0} /\ LevelSize[lv] = 2 * z
  BY <1>1, SizeOK
<1>7. g \in T /\ g.off = h.off + z
  BY <1>5, <1>6 DEF Block, Mem
<1>8. r = [q EXCEPT ![lv] = Tail(a), ![lv - 1] = d]
  BY <1>1, <1>2, <1>4 DEF SplitBlock, Halves
<1>9. d \in Seq(T) /\ Len(d) = m + 2 /\ (\A i \in 1 .. m : d[i] = b[i]) /\ d[m + 1] = h /\ d[m + 2] = g
  <2> HIDE DEF T, a, b, h, g
  <2>1. <<h, g>> \in Seq(T) /\ Len(<<h, g>>) = 2 /\ <<h, g>>[1] = h /\ <<h, g>>[2] = g
    BY <1>5, <1>7
  <2>2. d \in Seq(T) /\ Len(d) = m + 2
    BY <1>2, <2>1, ConcatProperties
  <2>3. \A i \in 1 .. m : d[i] = b[i]
    BY <1>2, <2>1
  <2>4. d[m + 1] = h /\ d[m + 2] = g
    BY <1>2, <2>1
  <2> QED BY <2>2, <2>3, <2>4
<1>10. Tail(a) \in Seq(T) /\ Len(Tail(a)) = Len(a) - 1 /\ \A i \in 1 .. Len(a) - 1 : Tail(a)[i] = a[i + 1]
  <2> HIDE DEF a, T
  <2> QED BY <1>2, <1>3, HeadTailProperties
<1> DEFINE tl == Tail(a)
<1> HIDE DEF tl, d
<1>11. /\ r \in [Levels -> Seq(T)] /\ r[lv] = tl /\ r[lv - 1] = d
       /\ \A l \in Levels : l # lv /\ l # lv - 1 => r[l] = q[l]
  <2>1. r = [q EXCEPT ![lv] = tl, ![lv - 1] = d]
    BY <1>8 DEF tl
  <2> QED BY <1>1, <1>2, <1>9, <1>10, <2>1 DEF tl
<1>12. ASSUME NEW l \in Levels, NEW i \in 1 .. Len(r[l]) PROVE r[l][i].off + LevelSize[l] <= Chunk
  <2>1. CASE l = lv
    <3>1. r[l][i] = a[i + 1] /\ i + 1 \in 1 .. Len(a)
      <4>1. r[l] = tl /\ i \in 1 .. Len(tl)
        BY <1>11, <1>12, <2>1
      <4>2. Len(tl) = Len(a) - 1 /\ \A p \in 1 .. Len(a) - 1 : tl[p] = a[p + 1]
        BY <1>10 DEF tl
      <4> HIDE DEF a
      <4> QED BY <1>3, <4>1, <4>2
    <3> QED BY <2>1, <3>1, LevelQueueOK
  <2>2. CASE l = lv - 1
    <3>1. i \in 1 .. m \/ i = m + 1 \/ i = m + 2
      <4>1. i \in 1 .. m + 2
        BY <1>9, <1>11, <1>12, <2>2
      <4> HIDE DEF m
      <4> QED BY <1>2, <4>1
    <3>2. CASE i \in 1 .. m
      BY <1>9, <1>11, <2>2, <3>2, LevelQueueOK
    <3>3. CASE i = m + 1
      <4>1. r[l][i] = h /\ LevelSize[l] = z
        BY <1>9, <1>11, <2>2, <3>3
      <4>2. h.off + z <= Chunk
        BY <1>5, <1>6, ChunkOK
      <4> QED BY <4>1, <4>2
    <3>4. CASE i = m + 2
      <4>1. r[l][i] = g /\ LevelSize[l] = z
        BY <1>9, <1>11, <2>2, <3>4
      <4>2. h.off + z + z <= Chunk
        BY <1>5, <1>6, ChunkOK
      <4> QED BY <1>7, <4>1, <4>2
    <3> QED BY <3>1, <3>2, <3>3, <3>4
  <2>3. CASE l # lv /\ l # lv - 1
    BY <1>11, <1>12, <2>3, LevelQueueOK
  <2> QED BY <2>1, <2>2, <2>3
<1>13. r \in Queues(n)
  BY <1>11, <1>12 DEF Queues
<1>14. SplitOff(q, r, lv)
  BY <1>9, <1>10, <1>11 DEF SplitOff, tl
<1> QED BY <1>13, <1>14

\* Where the blocks are the same but for the places in their queues, and those that the block
\* t was split into, J is tiled as K is.
LEMMA SplitTiled ==
  ASSUME NEW n \in Nat, NEW q \in Queues(n), NEW U \in SUBSET Given(n), NEW lv \in 1 .. MaxLevel, q[lv] # <<>>,
         NEW r \in Queues(n), SplitOff(q, r, lv), Tiled(AllBlocks(q, U), n)
  PROVE  Tiled(AllBlocks(r, U), n)
<1> DEFINE K == AllBlocks(q, U)
           J == AllBlocks(r, U)
           m == Len(q[lv - 1])
           h == q[lv][1]
           z == LevelSize[lv - 1]
           g == Block(h.chunk, h.off + z)
           t == At(h, lv, 1)
           A == At(h, lv - 1, m + 1)
           B == At(g, lv - 1, m + 2)
           F(x) == IF x.at = 0 THEN x
                   ELSE IF x.lv = lv THEN At(x.block, lv, x.at + 1)
                   ELSE IF x.lv = lv - 1 /\ x.at > m THEN t
                   ELSE x
           E(k) == IF k.at # 0 /\ k.lv = lv THEN At(k.block, lv, k.at - 1) ELSE k
           f == [x \in J |-> F(x)]
<1>1. lv \in Levels /\ lv - 1 \in Levels /\ lv # lv - 1
  BY LevelsOK
<1>2. /\ \A l \in Levels : Len(q[l]) \in Nat /\ Len(r[l]) \in Nat
      /\ Len(q[lv]) >= 1 /\ m \in Nat
  <2>1. q[lv] \in Seq(Mem(n))
    BY <1>1, LevelQueueOK
  <2>2. Len(q[lv]) # 0
    BY <2>1, EmptySeq
  <2> QED BY <1>1, <2>2, LevelQueueOK
<1>3. /\ Len(r[lv]) = Len(q[lv]) - 1
      /\ \A i \in 1 .. Len(r[lv]) : r[lv][i] = q[lv][i + 1]
      /\ Len(r[lv - 1]) = m + 2
      /\ \A i \in 1 .. m : r[lv - 1][i] = q[lv - 1][i]
      /\ r[lv - 1][m + 1] = h /\ r[lv - 1][m + 2] = g
      /\ \A l \in Levels : l # lv /\ l # lv - 1 => r[l] = q[l]
  BY DEF SplitOff
<1>4. h.chunk \in 1 .. n /\ h.off \in Nat /\ z \in Nat \ {0} /\ LevelSize[lv] = 2 * z
  <2>1. 1 \in 1 .. Len(q[lv])
    BY <1>1, <1>2
  <2> QED BY <1>1, <2>1, LevelQueueOK, SizeOK
<1>5. g.chunk = h.chunk /\ g.off = h.off + z
  BY DEF Block
<1>6. t \in K
  <2>1. 1 \in 1 .. Len(q[lv])
    BY <1>1, <1>2
  <2> QED BY <1>1, <2>1, BlocksAre
<1>7. A \in J /\ B \in J
  <2>1. m + 1 \in 1 .. Len(r[lv - 1]) /\ m + 2 \in 1 .. Len(r[lv - 1])
    BY <1>2, <1>3
  <2> HIDE DEF m, h, g
  <2> QED BY <1>1, <1>3, <2>1, BlocksAre
<1> HIDE DEF h, z, g, m
\* Where a block of J comes from.
<1>8. ASSUME NEW x \in J
      PROVE  \/ x \in K /\ F(x) = x /\ E(x) = x /\ x # t
             \/ /\ F(x) \in K /\ E(F(x)) = x /\ F(x) # t
                /\ F(x).block = x.block /\ F(x).lv = x.lv
             \/ x = A /\ F(x) = t
             \/ x = B /\ F(x) = t
  <2>1. CASE \E y \in U : x = At(y.block, y.lv, 0)
    <3>1. PICK y \in U : x = At(y.block, y.lv, 0)
      BY <2>1
    <3>2. x.at = 0 /\ x \in K /\ x # t
      BY <3>1, BlocksAre, AtIs
    <3> QED BY <3>2
  <2>2. CASE \E l \in Levels : \E i \in 1 .. Len(r[l]) : x = At(r[l][i], l, i)
    <3>1. PICK l \in Levels : \E i \in 1 .. Len(r[l]) : x = At(r[l][i], l, i)
      BY <2>2
    <3>2. PICK i \in 1 .. Len(r[l]) : x = At(r[l][i], l, i)
      BY <3>1
    <3>3. x.at = i /\ x.lv = l /\ x.block = r[l][i] /\ i # 0 /\ i \in Nat
      BY <3>2, AtIs
    <3>4. CASE l = lv
      <4> DEFINE y == At(r[l][i], lv, i + 1)
      <4>1. r[l][i] = q[lv][i + 1] /\ i + 1 \in 1 .. Len(q[lv])
        <5>1. i \in 1 .. Len(q[lv]) - 1
          BY <1>3, <3>4
        <5> DEFINE len == Len(q[lv])
        <5>2. len \in Nat /\ i \in 1 .. len - 1
          BY <1>1, <1>2, <5>1
        <5> HIDE DEF len
        <5>3. i + 1 \in 1 .. len
          BY <5>2
        <5>4. r[l][i] = q[lv][i + 1]
          BY <1>3, <3>4
        <5> QED BY <5>3, <5>4 DEF len
      <4>2. y \in K
        BY <1>1, <4>1, BlocksAre
      <4>3. F(x) = y
        BY <3>3, <3>4
      <4>4. y.at = i + 1 /\ y.lv = lv /\ y.block = r[l][i] /\ i + 1 # 0 /\ i + 1 # 1 /\ i + 1 - 1 = i
        BY <3>3, AtIs
      <4> HIDE DEF y
      <4>5. E(y) = At(r[l][i], lv, i)
        BY <4>4
      <4>6. y # t
        BY <4>4, AtIs
      <4> QED BY <3>2, <3>3, <3>4, <4>2, <4>3, <4>4, <4>5, <4>6
    <3>5. CASE l = lv - 1
      <4>1. i \in 1 .. m + 2
        BY <1>3, <3>5
      <4>2. CASE i \in 1 .. m
        <5>1. r[l][i] = q[l][i] /\ i \in 1 .. Len(q[l])
          BY <1>3, <3>5, <4>2 DEF m
        <5>2. x \in K
          BY <1>1, <3>2, <5>1, BlocksAre
        <5>3. ~ (i > m) /\ l # lv
          BY <1>1, <1>2, <3>5, <4>2
        <5>4. F(x) = x /\ E(x) = x
          BY <3>3, <5>3
        <5>5. x # t
          BY <3>3, <5>3, AtIs
        <5> QED BY <5>2, <5>4, <5>5
      <4>3. CASE i = m + 1
        <5>1. x = A
          BY <1>3, <3>2, <3>5, <4>3
        <5>2. F(x) = t
          BY <1>1, <1>2, <3>3, <3>5, <4>3
        <5> QED BY <5>1, <5>2
      <4>4. CASE i = m + 2
        <5>1. x = B
          BY <1>3, <3>2, <3>5, <4>4
        <5>2. F(x) = t
          BY <1>1, <1>2, <3>3, <3>5, <4>4
        <5> QED BY <5>1, <5>2
      <4>5. i \in 1 .. m \/ i = m + 1 \/ i = m + 2
        BY <1>2, <4>1
      <4> QED BY <4>2, <4>3, <4>4, <4>5
    <3>6. CASE l # lv /\ l # lv - 1
      <4>1. r[l] = q[l]
        BY <1>3, <3>6
      <4>2. x \in K
        BY <3>2, <4>1, BlocksAre
      <4>3. F(x) = x /\ E(x) = x
        BY <3>3, <3>6
      <4>4. x # t
        BY <3>3, <3>6, AtIs
      <4> QED BY <4>2, <4>3, <4>4
    <3> QED BY <3>4, <3>5, <3>6
  <2> QED BY <2>1, <2>2, BlocksAre
\* And where one of K goes.
<1>9. ASSUME NEW k \in K, k # t
      PROVE  \E x \in J : F(x) = k /\ x.block = k.block /\ x.lv = k.lv
  <2>1. CASE \E y \in U : k = At(y.block, y.lv, 0)
    <3>1. PICK y \in U : k = At(y.block, y.lv, 0)
      BY <2>1
    <3>2. k.at = 0 /\ k \in J
      BY <3>1, BlocksAre, AtIs
    <3> QED BY <3>2
  <2>2. CASE \E l \in Levels : \E i \in 1 .. Len(q[l]) : k = At(q[l][i], l, i)
    <3>1. PICK l \in Levels : \E i \in 1 .. Len(q[l]) : k = At(q[l][i], l, i)
      BY <2>2
    <3>2. PICK i \in 1 .. Len(q[l]) : k = At(q[l][i], l, i)
      BY <3>1
    <3>3. k.at = i /\ k.lv = l /\ k.block = q[l][i] /\ i # 0 /\ i \in Nat
      BY <3>2, AtIs
    <3>4. CASE l = lv
      <4>1. i # 1
        BY <1>9, <3>2, <3>4 DEF h
      <4>2. i - 1 \in 1 .. Len(r[lv]) /\ i - 1 + 1 = i /\ i - 1 # 0
        BY <1>1, <1>2, <1>3, <3>3, <3>4, <4>1
      <4>3. r[lv][i - 1] = q[lv][i]
        BY <1>3, <4>2
      <4> DEFINE x == At(q[lv][i], lv, i - 1)
      <4>4. x \in J
        BY <1>1, <4>2, <4>3, BlocksAre
      <4>5. x.at = i - 1 /\ x.lv = lv /\ x.block = q[lv][i]
        BY AtIs
      <4> HIDE DEF x
      <4>6. F(x) = At(q[lv][i], lv, i)
        BY <4>2, <4>5
      <4> QED BY <3>2, <3>3, <3>4, <4>4, <4>5, <4>6
    <3>5. CASE l = lv - 1
      <4>1. i \in 1 .. m /\ r[l][i] = q[l][i] /\ i \in 1 .. Len(r[l]) /\ ~ (i > m)
        <5>1. i \in 1 .. m
          BY <3>5 DEF m
        <5>2. i \in 1 .. m + 2 /\ ~ (i > m)
          BY <1>2, <5>1
        <5> QED BY <1>3, <3>5, <5>1, <5>2
      <4>2. k \in J
        BY <3>2, <4>1, BlocksAre
      <4>3. F(k) = k
        BY <1>1, <3>3, <3>5, <4>1
      <4> QED BY <4>2, <4>3
    <3>6. CASE l # lv /\ l # lv - 1
      <4>1. r[l] = q[l]
        BY <1>3, <3>6
      <4>2. k \in J
        BY <3>2, <4>1, BlocksAre
      <4>3. F(k) = k
        BY <3>3, <3>6
      <4> QED BY <4>2, <4>3
    <3> QED BY <3>4, <3>5, <3>6
  <2> QED BY <2>1, <2>2, BlocksAre
<1>10. F(A) = t /\ F(B) = t
  <2>1. A.at = m + 1 /\ A.lv = lv - 1 /\ B.at = m + 2 /\ B.lv = lv - 1
    BY AtIs
  <2>2. m + 1 # 0 /\ m + 2 # 0 /\ m + 1 > m /\ m + 2 > m
    BY <1>2
  <2> HIDE DEF A, B
  <2> QED BY <1>1, <2>1, <2>2
<1>11. \A c : \A u \in Nat : /\ HasUnit(A, c, u) \/ HasUnit(B, c, u) <=> HasUnit(t, c, u)
                             /\ ~ (HasUnit(A, c, u) /\ HasUnit(B, c, u))
  <2> DEFINE a == h.off
             b == g.off
             s == LevelSize[lv]
  <2>1. a \in Nat /\ z \in Nat \ {0} /\ b = a + z /\ s = 2 * z /\ g.chunk = h.chunk
    BY <1>4, <1>5
  <2> HIDE DEF a, b, s
  <2>2. \A u \in Nat : /\ (a <= u /\ u < a + z) \/ (b <= u /\ u < b + z) <=> a <= u /\ u < a + s
                       /\ ~ ((a <= u /\ u < a + z) /\ (b <= u /\ u < b + z))
    BY <2>1
  <2>3. /\ \A c, u : HasUnit(A, c, u) <=> h.chunk = c /\ a <= u /\ u < a + z
        /\ \A c, u : HasUnit(B, c, u) <=> g.chunk = c /\ b <= u /\ u < b + z
        /\ \A c, u : HasUnit(t, c, u) <=> h.chunk = c /\ a <= u /\ u < a + s
    BY HasIs DEF a, b, s, z
  <2> HIDE DEF A, B, t
  <2> QED BY <2>1, <2>2, <2>3
<1>12. \A x, y, c, u : x.block = y.block /\ x.lv = y.lv => (HasUnit(x, c, u) <=> HasUnit(y, c, u))
  BY DEF HasUnit
<1> HIDE DEF K, J, t, A, B, F, E
<1>13. \A x \in J : f[x] = F(x)
  OBVIOUS
<1> HIDE DEF f
<1>14. \A u \in 0 .. Chunk - 1 : u \in Nat
  OBVIOUS
<1>15. \A x \in J : f[x] \in K
  BY <1>6, <1>8, <1>13
<1>16. \A x \in J : \A c : \A u \in 0 .. Chunk - 1 : HasUnit(x, c, u) => HasUnit(f[x], c, u)
  BY <1>8, <1>11, <1>12, <1>13, <1>14
<1>17. \A k \in K : \A c \in 1 .. n : \A u \in 0 .. Chunk - 1 :
         HasUnit(k, c, u) => \E x \in J : f[x] = k /\ HasUnit(x, c, u)
  <2> SUFFICES ASSUME NEW k \in K, NEW c \in 1 .. n, NEW u \in 0 .. Chunk - 1, HasUnit(k, c, u)
               PROVE  \E x \in J : f[x] = k /\ HasUnit(x, c, u)
    OBVIOUS
  <2>1. CASE k = t
    BY <1>7, <1>10, <1>11, <1>13, <1>14, <2>1
  <2>2. CASE k # t
    BY <1>9, <1>12, <1>13, <2>2
  <2> QED BY <2>1, <2>2
<1>18. \A x, y \in J : \A c : \A u \in 0 .. Chunk - 1 :
         f[x] = f[y] /\ HasUnit(x, c, u) /\ HasUnit(y, c, u) => x = y
  <2> SUFFICES ASSUME NEW x \in J, NEW y \in J, NEW c, NEW u \in 0 .. Chunk - 1,
                      F(x) = F(y), HasUnit(x, c, u), HasUnit(y, c, u)
               PROVE  x = y
    BY <1>13
  <2>1. CASE F(x) = t
    <3>1. (x = A \/ x = B) /\ (y = A \/ y = B)
      BY <1>8, <2>1
    <3> QED BY <1>11, <1>14, <3>1
  <2>2. CASE F(x) # t
    <3>1. E(F(x)) = x /\ E(F(y)) = y
      BY <1>8, <2>2
    <3> QED BY <3>1
  <2> QED BY <2>1, <2>2
<1>19. Tiled(K, n)
  BY DEF K
<1>20. Tiled(J, n)
  BY ONLY <1>15, <1>16, <1>17, <1>18, <1>19, Retiled
<1> QED BY <1>20 DEF J

\* _Split leaves blocks for the level below.
LEMMA SplitOK ==
  ASSUME NEW n \in Nat, NEW q, NEW U, Sound(q, U, n), NEW lv \in 1 .. MaxLevel, q[lv] # <<>>
  PROVE  Sound(Split(q, lv), U, n) /\ Split(q, lv)[lv - 1] # <<>>
<1> DEFINE len == Len(q[lv])
           low == Len(q[lv - 1])
           N == len \div 2 + 1
           G == [y \in (1 .. N) \X Queues(n) |-> IF y[2][lv] # <<>> THEN SplitBlock(y[2], lv) ELSE y[2]]
           S == [k \in 0 .. N |-> {x \in Queues(n) : /\ Sound(x, U, n)
                                                     /\ Len(x[lv]) = len - k
                                                     /\ Len(x[lv - 1]) = low + 2 * k}]
<1>1. lv \in Levels /\ lv - 1 \in Levels /\ q \in Queues(n)
  BY LevelsOK DEF Sound
<1>2. len \in Nat \ {0} /\ low \in Nat
  <2>1. q[lv] \in Seq(Mem(n)) /\ Len(q[lv]) \in Nat /\ low \in Nat
    BY <1>1, LevelQueueOK
  <2> QED BY <2>1, EmptySeq
<1> HIDE DEF len, low
<1>3. N \in Nat \ {0} /\ (\A k \in 1 .. N : len - (k - 1) >= 1 /\ k - 1 \in 0 .. N /\ k \in 0 .. N /\ k # 0)
  BY <1>2
<1> HIDE DEF N
<1>4. G \in [(1 .. N) \X Queues(n) -> Queues(n)]
  BY SplitShape
<1> HIDE DEF G
<1>5. PICK f : Runs(f, N, Queues(n), q, G)
  BY <1>1, <1>3, <1>4, Passes
<1>6. ASSUME NEW k \in 1 .. N, NEW x \in S[k - 1]
      PROVE  x[lv] # <<>> /\ SplitBlock(x, lv) \in S[k]
  <2> DEFINE y == SplitBlock(x, lv)
  <2>1. /\ x \in Queues(n) /\ Sound(x, U, n)
        /\ Len(x[lv]) = len - (k - 1) /\ Len(x[lv - 1]) = low + 2 * (k - 1)
    BY <1>3, <1>6
  <2>2. x[lv] # <<>>
    <3>1. Len(x[lv]) # 0
      BY <1>3, <2>1
    <3> QED BY <3>1
  <2>3. y \in Queues(n) /\ SplitOff(x, y, lv)
    BY <2>1, <2>2, SplitShape
  <2> HIDE DEF y
  <2>4. U \in SUBSET Given(n) /\ Tiled(AllBlocks(x, U), n)
    BY <2>1 DEF Sound
  <2>5. Tiled(AllBlocks(y, U), n)
    BY <2>1, <2>2, <2>3, <2>4, SplitTiled
  <2>6. Sound(y, U, n)
    BY <2>3, <2>4, <2>5 DEF Sound
  <2>7. Len(y[lv]) = len - k /\ Len(y[lv - 1]) = low + 2 * k
    <3>1. Len(y[lv]) = len - (k - 1) - 1 /\ Len(y[lv - 1]) = low + 2 * (k - 1) + 2
      BY <2>1, <2>3 DEF SplitOff
    <3> QED BY <1>2, <1>3, <3>1
  <2> QED BY <1>3, <2>2, <2>3, <2>6, <2>7 DEF y
<1>7. q \in S[0] /\ 0 \in 0 .. N
  <2>1. Len(q[lv]) = len - 0 /\ Len(q[lv - 1]) = low + 2 * 0
    BY <1>2 DEF len, low
  <2> QED BY <1>1, <1>3, <2>1
<1>8. \A k \in 0 .. N : S[k] \subseteq Queues(n)
  OBVIOUS
<1>9. \A k \in 0 .. N : \A x \in S[k] : Sound(x, U, n) /\ Len(x[lv - 1]) = low + 2 * k
  OBVIOUS
<1> HIDE DEF S
<1>10. \A k \in 1 .. N : f[k - 1] \in S[k - 1] => f[k] = SplitBlock(f[k - 1], lv)
  BY <1>3, <1>5, <1>6, <1>8 DEF Runs, G
<1>11. f[0] = q /\ f \in [0 .. N -> Queues(n)]
  BY <1>5 DEF Runs
<1>12. f[0] \in S[0] /\ \A k \in 1 .. N : f[k - 1] \in S[k - 1] => f[k] \in S[k]
  BY <1>6, <1>7, <1>10, <1>11
<1>13. \A k \in 0 .. N : f[k] \in S[k]
  BY ONLY <1>3, <1>12, KeptAt
<1>14. f = [k \in 0 .. N |-> IF k = 0 THEN q ELSE SplitBlock(f[k - 1], lv)]
  <2>1. \A k \in 0 .. N : k # 0 => k \in 1 .. N
    BY <1>3
  <2> QED BY <1>3, <1>10, <1>11, <1>13, <2>1
<1> DEFINE s == CHOOSE g : g = [k \in 0 .. N |-> IF k = 0 THEN q ELSE SplitBlock(g[k - 1], lv)]
<1>15. s = [k \in 0 .. N |-> IF k = 0 THEN q ELSE SplitBlock(s[k - 1], lv)]
  BY <1>14
<1>16. Split(q, lv) = s[N]
  BY DEF Split, N, len
<1> HIDE DEF s
<1>17. s[0] = q /\ \A k \in 1 .. N : s[k] = SplitBlock(s[k - 1], lv)
  BY <1>3, <1>7, <1>15
<1>18. s[0] \in S[0] /\ \A k \in 1 .. N : s[k - 1] \in S[k - 1] => s[k] \in S[k]
  BY <1>6, <1>7, <1>17
<1>19. \A k \in 0 .. N : s[k] \in S[k]
  BY ONLY <1>3, <1>18, KeptAt
<1>20. Sound(s[N], U, n) /\ Len(s[N][lv - 1]) = low + 2 * N
  BY <1>3, <1>9, <1>19
<1>21. s[N][lv - 1] # <<>>
  <2>1. low + 2 * N # 0
    BY <1>2, <1>3
  <2>2. Len(s[N][lv - 1]) # 0
    BY <1>20, <2>1
  <2> QED BY <2>2
<1> QED BY <1>16, <1>20, <1>21

-----------------------------------------------------------------------------
(* New memory                                                              *)

\* _Double of the highest level adds the blocks of a new chunk, and these tile it.
LEMMA LevelDoubleOK ==
  ASSUME NEW n \in Nat, NEW q, NEW U, Sound(q, U, n)
  PROVE  Sound(DoubleLevel(q, n + 1), U, n + 1) /\ DoubleLevel(q, n + 1)[MaxLevel] # <<>>
<1> DEFINE M == MaxLevel
           z == LevelSize[M]
           a == q[M]
           m == Len(a)
           d == [i \in 1 .. MaxLvCnt |-> Block(n + 1, (i - 1) * z)]
           r == DoubleLevel(q, n + 1)
           T == Mem(n + 1)
           K == AllBlocks(q, U)
           J == AllBlocks(r, U)
<1>1. M \in Levels /\ MaxLvCnt \in Nat \ {0} /\ z \in Nat \ {0} /\ Chunk = MaxLvCnt * z
  BY LevelsOK, SizeOK DEF Chunk
<1>2. q \in Queues(n) /\ U \subseteq Given(n) /\ Tiled(K, n)
  BY DEF Sound
<1>3. Mem(n) \subseteq T
  BY DEF Mem
<1>4. a \in Seq(T) /\ m \in Nat /\ q \in [Levels -> Seq(T)]
  <2>1. Seq(Mem(n)) \subseteq Seq(T)
    BY <1>3
  <2>2. a \in Seq(Mem(n)) /\ m \in Nat /\ q \in [Levels -> Seq(Mem(n))]
    BY <1>1, <1>2, LevelQueueOK
  <2> QED BY <2>1, <2>2
<1>5. \A i \in 1 .. MaxLvCnt : (i - 1) * z \in Nat /\ (i - 1) * z + z <= Chunk
  <2> TAKE i \in 1 .. MaxLvCnt
  <2>1. (i - 1) * z \in Nat /\ (i - 1) * z + z = i * z
    <3> HIDE DEF z
    <3> QED BY <1>1
  <2>2. i * z <= MaxLvCnt * z
    <3> HIDE DEF z
    <3> QED BY <1>1
  <2> QED BY <1>1, <2>1, <2>2
<1>6. \A i \in 1 .. MaxLvCnt : d[i] \in T /\ d[i].chunk = n + 1 /\ d[i].off = (i - 1) * z
  BY <1>5 DEF Block, Mem
<1>7. d \in Seq(T) /\ Len(d) = MaxLvCnt
  BY <1>1, <1>6
<1> DEFINE e == a \o d
<1>8. r = [q EXCEPT ![M] = e]
  BY DEF DoubleLevel
<1> HIDE DEF r, z, T
<1>9. /\ e \in Seq(T) /\ Len(e) = m + MaxLvCnt /\ (\A i \in 1 .. m : e[i] = a[i])
      /\ \A i \in 1 .. MaxLvCnt : e[m + i] = d[i] /\ m + i \in 1 .. Len(e)
  <2> HIDE DEF a, d
  <2>1. e \in Seq(T) /\ Len(e) = m + MaxLvCnt
    BY <1>4, <1>7, ConcatProperties
  <2>2. \A i \in 1 .. m : e[i] = a[i]
    BY <1>4, <1>7
  <2>3. \A i \in 1 .. MaxLvCnt : e[m + i] = d[i] /\ m + i \in 1 .. Len(e)
    BY <1>1, <1>4, <1>7, <2>1
  <2> QED BY <2>1, <2>2, <2>3
<1> HIDE DEF e, d
<1>10. r \in [Levels -> Seq(T)] /\ r[M] = e /\ \A l \in Levels : l # M => r[l] = q[l]
  BY <1>1, <1>4, <1>8, <1>9
\* What is in the highest queue.
<1>11. ASSUME NEW i \in 1 .. Len(e)
       PROVE  \/ i \in 1 .. m /\ e[i] = a[i]
              \/ \E j \in 1 .. MaxLvCnt : i = m + j /\ e[i] = d[j]
  <2>1. i \in 1 .. m \/ i - m \in 1 .. MaxLvCnt
    BY <1>1, <1>4, <1>9
  <2>2. CASE i \in 1 .. m
    BY <1>9, <2>2
  <2>3. CASE i - m \in 1 .. MaxLvCnt
    <3> DEFINE j == i - m
    <3>1. i = m + j /\ j \in 1 .. MaxLvCnt
      BY <1>4, <2>3
    <3> HIDE DEF j
    <3> QED BY <1>9, <3>1
  <2> QED BY <2>1, <2>2, <2>3
<1>12. ASSUME NEW l \in Levels, NEW i \in 1 .. Len(r[l]) PROVE r[l][i].off + LevelSize[l] <= Chunk
  <2>1. CASE l = M
    <3>1. i \in 1 .. Len(e) /\ r[l][i] = e[i]
      BY <1>10, <2>1
    <3>2. CASE i \in 1 .. m /\ e[i] = a[i]
      BY <1>1, <1>2, <2>1, <3>1, <3>2, LevelQueueOK
    <3>3. CASE \E j \in 1 .. MaxLvCnt : i = m + j /\ e[i] = d[j]
      BY <1>5, <1>6, <2>1, <3>1, <3>3 DEF z
    <3> QED BY <1>11, <3>1, <3>2, <3>3
  <2>2. CASE l # M
    <3>1. r[l] = q[l]
      BY <1>10, <2>2
    <3> QED BY <1>2, <3>1, LevelQueueOK
  <2> QED BY <2>1, <2>2
<1>13. r \in Queues(n + 1)
  BY <1>10, <1>12 DEF Queues, T
<1>14. U \subseteq Given(n + 1)
  BY <1>2, <1>3 DEF Given, T
\* The blocks are those there were, and the new ones.
<1>15. ASSUME NEW x \in K PROVE x \in J
  <2>1. CASE \E y \in U : x = At(y.block, y.lv, 0)
    BY <2>1, BlocksAre
  <2>2. CASE \E l \in Levels : \E i \in 1 .. Len(q[l]) : x = At(q[l][i], l, i)
    <3>1. PICK l \in Levels : \E i \in 1 .. Len(q[l]) : x = At(q[l][i], l, i)
      BY <2>2
    <3>2. PICK i \in 1 .. Len(q[l]) : x = At(q[l][i], l, i)
      BY <3>1
    <3>3. i \in 1 .. Len(r[l]) /\ r[l][i] = q[l][i]
      <4>1. CASE l = M
        <5>1. i \in 1 .. m
          BY <4>1
        <5>2. i \in 1 .. Len(e)
          BY <1>1, <1>4, <1>9, <5>1
        <5> QED BY <1>9, <1>10, <4>1, <5>1, <5>2
      <4>2. CASE l # M
        BY <1>10, <4>2
      <4> QED BY <4>1, <4>2
    <3> QED BY <3>2, <3>3, BlocksAre
  <2> QED BY <2>1, <2>2, BlocksAre
<1> DEFINE New(j) == At(d[j], M, m + j)
<1>16. ASSUME NEW x \in J PROVE x \in K \/ \E j \in 1 .. MaxLvCnt : x = New(j)
  <2>1. CASE \E y \in U : x = At(y.block, y.lv, 0)
    BY <2>1, BlocksAre
  <2>2. CASE \E l \in Levels : \E i \in 1 .. Len(r[l]) : x = At(r[l][i], l, i)
    <3>1. PICK l \in Levels : \E i \in 1 .. Len(r[l]) : x = At(r[l][i], l, i)
      BY <2>2
    <3>2. PICK i \in 1 .. Len(r[l]) : x = At(r[l][i], l, i)
      BY <3>1
    <3>3. CASE l = M
      <4>1. i \in 1 .. Len(e) /\ r[l][i] = e[i]
        BY <1>10, <3>3
      <4>2. CASE i \in 1 .. m /\ e[i] = a[i]
        <5>1. x = At(q[M][i], M, i) /\ i \in 1 .. Len(q[M])
          BY <3>2, <3>3, <4>1, <4>2
        <5> QED BY <1>1, <5>1, BlocksAre
      <4>3. CASE \E j \in 1 .. MaxLvCnt : i = m + j /\ e[i] = d[j]
        BY <3>2, <3>3, <4>1, <4>3
      <4> QED BY <1>11, <4>1, <4>2, <4>3
    <3>4. CASE l # M
      BY <1>10, <3>2, <3>4, BlocksAre
    <3> QED BY <3>3, <3>4
  <2> QED BY <2>1, <2>2, BlocksAre
<1>17. \A j \in 1 .. MaxLvCnt : New(j) \in J
  <2> TAKE j \in 1 .. MaxLvCnt
  <2>1. m + j \in 1 .. Len(r[M]) /\ r[M][m + j] = d[j]
    BY <1>9, <1>10
  <2> QED BY <1>1, <2>1, BlocksAre
<1>18. \A j \in 1 .. MaxLvCnt : \A c, u : HasUnit(New(j), c, u) <=> c = n + 1 /\ (j - 1) * z <= u /\ u < (j - 1) * z + z
  BY <1>6, HasIs DEF z
<1>19. ASSUME NEW x \in K PROVE x.block.chunk \in 1 .. n
  <2>1. \A y \in Given(n) : y.block.chunk \in 1 .. n
    BY DEF Given, Mem
  <2> QED BY <1>2, <2>1, BlocksAre, AtIs, LevelQueueOK
<1> HIDE DEF K, J, New, m, a
<1>20. \A x \in K : \A c, u : HasUnit(x, c, u) => c \in 1 .. n
  BY <1>19 DEF HasUnit
<1>21. ASSUME NEW c \in 1 .. n + 1, NEW u \in 0 .. Chunk - 1
       PROVE  \E x \in J : HasUnit(x, c, u) /\ \A y \in J : HasUnit(y, c, u) => y = x
  <2>1. CASE c \in 1 .. n
    <3>1. PICK x \in K : HasUnit(x, c, u) /\ \A y \in K : HasUnit(y, c, u) => y = x
      BY <1>2, <2>1 DEF Tiled
    <3>2. c # n + 1
      BY <2>1
    <3>3. \A y \in J : HasUnit(y, c, u) => y \in K
      BY <1>16, <1>18, <3>2
    <3> QED BY <1>15, <3>1, <3>3
  <2>2. CASE c = n + 1
    <3> DEFINE j == u \div z + 1
    <3>1. u \in Nat /\ u < MaxLvCnt * z
      BY <1>1, ChunkOK
    <3>2. j \in 1 .. MaxLvCnt /\ (j - 1) * z <= u /\ u < (j - 1) * z + z
      <4> DEFINE p == u \div z
      <4>1. p \in Nat /\ p * z <= u /\ u < p * z + z
        BY <1>1, <3>1
      <4> HIDE DEF p
      <4>2. p < MaxLvCnt
        BY <1>1, <3>1, <4>1
      <4>3. j = p + 1 /\ p + 1 - 1 = p
        BY <4>1 DEF p
      <4> HIDE DEF j
      <4> QED BY <1>1, <4>1, <4>2, <4>3
    <3>3. \A i \in 1 .. MaxLvCnt : (i - 1) * z <= u /\ u < (i - 1) * z + z => i = j
      <4> HIDE DEF j
      <4> TAKE i \in 1 .. MaxLvCnt
      <4> HAVE (i - 1) * z <= u /\ u < (i - 1) * z + z
      <4>1. i < j => i * z <= (j - 1) * z
        BY <1>1, <3>2
      <4>2. j < i => j * z <= (i - 1) * z
        BY <1>1, <3>2
      <4>3. i * z = (i - 1) * z + z /\ j * z = (j - 1) * z + z
        BY <1>1, <3>2
      <4>4. i * z \in Nat /\ j * z \in Nat /\ (i - 1) * z \in Nat /\ (j - 1) * z \in Nat
        BY <1>1, <3>2
      <4>5. ~ (i < j) /\ ~ (j < i)
        BY <1>1, <3>1, <3>2, <4>1, <4>2, <4>3, <4>4
      <4> QED BY <3>2, <4>5
    <3> HIDE DEF j
    <3>4. New(j) \in J /\ HasUnit(New(j), c, u)
      BY <1>17, <1>18, <2>2, <3>2
    <3>5. c \notin 1 .. n
      BY <2>2
    <3>6. \A y \in J : HasUnit(y, c, u) => y = New(j)
      BY <1>16, <1>18, <1>20, <3>3, <3>5
    <3> QED BY <3>4, <3>6
  <2> QED BY <2>1, <2>2
<1>22. Tiled(J, n + 1)
  BY <1>21 DEF Tiled
<1>23. r[M] # <<>>
  <2>1. Len(e) # 0
    BY <1>1, <1>4, <1>9
  <2> QED BY <1>10, <2>1
<1> QED BY <1>13, <1>14, <1>22, <1>23 DEF Sound, r, J

-----------------------------------------------------------------------------
(* The next level that has blocks                                          *)

\* The splits from the level top down to lv leave blocks for lv.
LEMMA DescendOK ==
  ASSUME NEW n \in Nat, NEW b, NEW U, Sound(b, U, n), NEW top \in Levels, NEW lv \in Levels, lv <= top,
         b[top] # <<>>, NEW N, N = top - lv,
         NEW s, s = CHOOSE g : g = [k \in 0 .. N |-> IF k = 0 THEN b ELSE Split(g[k - 1], top + 1 - k)]
  PROVE  Sound(s[N], U, n) /\ s[N][lv] # <<>>
<1> DEFINE Q == Queues(n)
           Ready(x, l) == Sound(x, U, n) /\ x[l] # <<>>
           G == [y \in (1 .. N) \X Q |->
                   IF Ready(y[2], top + 1 - y[1]) THEN Split(y[2], top + 1 - y[1]) ELSE y[2]]
           S == [k \in 0 .. N |-> {x \in Q : Ready(x, top - k)}]
<1>1. /\ N \in Nat /\ top - N = lv
      /\ \A k \in 1 .. N : /\ top + 1 - k \in 1 .. MaxLevel /\ top + 1 - k - 1 = top - k
                           /\ top - (k - 1) = top + 1 - k
                           /\ k - 1 \in 0 .. N /\ k \in 0 .. N /\ k # 0
  BY LevelsOK
<1>2. b \in Q
  BY DEF Sound
<1>3. \A x : \A k \in 1 .. N : Ready(x, top + 1 - k) =>
        Split(x, top + 1 - k) \in Q /\ Ready(Split(x, top + 1 - k), top - k)
  <2> SUFFICES ASSUME NEW x, NEW k \in 1 .. N, Ready(x, top + 1 - k)
               PROVE  Split(x, top + 1 - k) \in Q /\ Ready(Split(x, top + 1 - k), top - k)
    OBVIOUS
  <2> DEFINE l == top + 1 - k
  <2>5. k \in 1 .. N
    OBVIOUS
  <2>1. l \in 1 .. MaxLevel /\ l - 1 = top - k
    <3>1. top \in Int /\ MaxLevel \in Int
      BY LevelsOK
    <3>2. top + 1 - k \in 1 .. MaxLevel
      BY ONLY <1>1, <2>5
    <3>3. k \in Int
      OBVIOUS
    <3> HIDE DEF Q, Ready, G, S
    <3> QED BY ONLY <3>1, <3>2, <3>3
  <2> HIDE DEF l
  <2>2. Sound(x, U, n) /\ x[l] # <<>>
    BY DEF l
  <2>3. Sound(Split(x, l), U, n) /\ Split(x, l)[l - 1] # <<>>
    BY <2>1, <2>2, SplitOK
  <2>4. Split(x, l) \in Q
    BY <2>3 DEF Sound
  <2> QED BY <2>1, <2>3, <2>4 DEF l
<1> HIDE DEF Ready, Q
<1>4. G \in [(1 .. N) \X Q -> Q]
  BY <1>3
<1> HIDE DEF G
<1>5. PICK f : Runs(f, N, Q, b, G)
  BY <1>1, <1>2, <1>4, Passes
<1>6. b \in S[0] /\ 0 \in 0 .. N
  <2>1. top - 0 = top /\ 0 \in 0 .. N
    BY <1>1, LevelsOK
  <2>2. Ready(b, top)
    BY DEF Ready
  <2> QED BY <1>2, <2>1, <2>2
<1>7. ASSUME NEW k \in 1 .. N, NEW x \in S[k - 1]
      PROVE  x \in Q /\ Ready(x, top + 1 - k) /\ Split(x, top + 1 - k) \in S[k]
  <2>1. k - 1 \in 0 .. N /\ k \in 0 .. N /\ top - (k - 1) = top + 1 - k
    BY <1>1
  <2>2. x \in Q /\ Ready(x, top + 1 - k)
    BY <2>1
  <2> QED BY <1>3, <2>1, <2>2
<1>8. \A x \in S[N] : Ready(x, lv)
  BY <1>1
<1> HIDE DEF S
<1>9. f \in [0 .. N -> Q] /\ f[0] = b
  BY <1>5 DEF Runs
<1>10. \A k \in 1 .. N : f[k - 1] \in S[k - 1] => f[k] = Split(f[k - 1], top + 1 - k)
  <2> SUFFICES ASSUME NEW k \in 1 .. N, f[k - 1] \in S[k - 1] PROVE f[k] = Split(f[k - 1], top + 1 - k)
    OBVIOUS
  <2>1. f[k] = G[<<k, f[k - 1]>>] /\ f[k - 1] \in Q
    BY <1>5, <1>7 DEF Runs
  <2>2. Ready(f[k - 1], top + 1 - k)
    BY <1>7
  <2> QED BY <2>1, <2>2 DEF G
<1>11. f[0] \in S[0] /\ \A k \in 1 .. N : f[k - 1] \in S[k - 1] => f[k] \in S[k]
  BY <1>6, <1>7, <1>9, <1>10
<1>12. \A k \in 0 .. N : f[k] \in S[k]
  BY ONLY <1>1, <1>11, KeptAt
<1>13. f = [k \in 0 .. N |-> IF k = 0 THEN b ELSE Split(f[k - 1], top + 1 - k)]
  <2>1. \A k \in 0 .. N : k # 0 => k \in 1 .. N
    BY <1>1
  <2>2. \A k \in 0 .. N : k # 0 => f[k] = Split(f[k - 1], top + 1 - k)
    BY <1>1, <1>10, <1>12, <2>1
  <2>3. \A k \in 0 .. N : f[k] = IF k = 0 THEN b ELSE Split(f[k - 1], top + 1 - k)
    BY <1>9, <2>2
  <2> QED BY <1>9, <2>3
<1>14. s = [k \in 0 .. N |-> IF k = 0 THEN b ELSE Split(s[k - 1], top + 1 - k)]
  BY <1>13
<1>15. s[0] = b /\ \A k \in 1 .. N : s[k] = Split(s[k - 1], top + 1 - k)
  BY <1>1, <1>6, <1>14
<1>16. s[0] \in S[0] /\ \A k \in 1 .. N : s[k - 1] \in S[k - 1] => s[k] \in S[k]
  BY <1>6, <1>7, <1>15
<1>17. \A k \in 0 .. N : s[k] \in S[k]
  BY ONLY <1>1, <1>16, KeptAt
<1>18. Ready(s[N], lv)
  <2>1. N \in 0 .. N
    BY ONLY <1>1
  <2>2. s[N] \in S[N]
    BY ONLY <1>17, <2>1
  <2> QED BY ONLY <1>8, <2>2
<1> QED BY <1>18 DEF Ready

\* How much memory there is once the level lv of q has been given blocks.
Grown(q, lv, n) == IF \A l \in Levels : l > lv => q[l] = <<>> THEN n + 1 ELSE n

\* _Append leaves blocks for the level it is called for.
LEMMA AppendOK ==
  ASSUME chunks \in Nat, NEW q, NEW U, Sound(q, U, chunks), NEW lv \in Levels
  PROVE  Sound(AppendLevel(q, lv), U, Grown(q, lv, chunks)) /\ AppendLevel(q, lv)[lv] # <<>>
<1> DEFINE n == chunks
           above == {l \in Levels : l > lv /\ q[l] # <<>>}
           top   == IF above = {} THEN MaxLevel ELSE Min(above)
           full  == IF above = {} THEN DoubleLevel(q, n + 1) ELSE q
           N == top - lv
           s == CHOOSE g : g = [k \in 0 .. N |-> IF k = 0 THEN full ELSE Split(g[k - 1], top + 1 - k)]
<1>1. AppendLevel(q, lv) = s[N]
  BY DEF AppendLevel
<1>2. lv \in 0 .. MaxLevel /\ MaxLevel \in Levels /\ MaxLevel \in Nat
  BY LevelsOK
<1>3. /\ top \in Levels /\ lv <= top
      /\ Grown(q, lv, n) \in Nat /\ Sound(full, U, Grown(q, lv, n)) /\ full[top] # <<>>
  <2>1. CASE above = {}
    <3>1. top = MaxLevel /\ full = DoubleLevel(q, n + 1)
      BY <2>1
    <3>2. \A l \in Levels : l > lv => q[l] = <<>>
      BY <2>1
    <3>3. Grown(q, lv, n) = n + 1
      BY <3>2 DEF Grown
    <3> QED BY <1>2, <3>1, <3>3, LevelDoubleOK
  <2>2. CASE above # {}
    <3>1. top = Min(above) /\ full = q
      BY <2>2
    <3>2. above \in SUBSET Nat
      BY LevelsOK
    <3>3. \E x \in above : \A y \in above : x <= y
      <4> HIDE DEF above
      <4> QED BY <2>2, <3>2, Least
    <3>4. Min(above) \in above
      <4> HIDE DEF above
      <4> QED BY <3>3 DEF Min
    <3>5. Grown(q, lv, n) = n
      BY <2>2 DEF Grown
    <3>6. \A l \in above : l \in Levels /\ lv <= l /\ q[l] # <<>>
      BY LevelsOK
    <3> HIDE DEF above
    <3> QED BY <3>1, <3>4, <3>5, <3>6
  <2> QED BY <2>1, <2>2
<1> HIDE DEF top, full
<1>4. Sound(s[N], U, Grown(q, lv, n)) /\ s[N][lv] # <<>>
  BY <1>3, DescendOK
<1> QED BY <1>1, <1>4

-----------------------------------------------------------------------------
(* Giving a block out and taking it back                                   *)

\* Where f and e carry the blocks of J to those of K and back, and neither resizes a block.
LEMMA Moved ==
  ASSUME NEW K, NEW J, NEW f, NEW e, NEW n, Tiled(K, n),
         \A x \in J : f[x] \in K /\ f[x].block = x.block /\ f[x].lv = x.lv /\ e[f[x]] = x,
         \A k \in K : e[k] \in J /\ f[e[k]] = k
  PROVE  Tiled(J, n)
<1>1. \A x, y, c, u : x.block = y.block /\ x.lv = y.lv => (HasUnit(x, c, u) <=> HasUnit(y, c, u))
  BY DEF HasUnit
<1>2. \A x \in J : f[x] \in K
  OBVIOUS
<1>3. \A x \in J : \A c, u : HasUnit(x, c, u) <=> HasUnit(f[x], c, u)
  BY <1>1
<1>4. \A k \in K : \A c \in 1 .. n : \A u \in 0 .. Chunk - 1 :
        HasUnit(k, c, u) => \E x \in J : f[x] = k /\ HasUnit(x, c, u)
  BY <1>3
<1>5. \A x, y \in J : f[x] = f[y] => x = y
  OBVIOUS
<1> QED BY <1>2, <1>3, <1>4, <1>5, Retiled

\* A record of a used block is made of its two fields.
LEMMA GivenIs ==
  ASSUME NEW n, NEW y \in Given(n)
  PROVE  /\ y = [block |-> y.block, lv |-> y.lv] /\ y.block \in Mem(n) /\ y.lv \in Levels
         /\ y.block.off + LevelSize[y.lv] <= Chunk
BY DEF Given

\* The head of the queue goes to the used blocks.
LEMMA LevelAllocOK ==
  ASSUME NEW n \in Nat, NEW q, NEW U, Sound(q, U, n), NEW lv \in Levels, q[lv] # <<>>,
         NEW r, r = [q EXCEPT ![lv] = Tail(@)],
         NEW V, V = U \cup {[block |-> Head(q[lv]), lv |-> lv]}
  PROVE  Sound(r, V, n)
<1> DEFINE K == AllBlocks(q, U)
           J == AllBlocks(r, V)
           a == q[lv]
           h == a[1]
           t == At(h, lv, 1)
           o == At(h, lv, 0)
           F(x) == IF x = o THEN t ELSE IF x.at # 0 /\ x.lv = lv THEN At(x.block, lv, x.at + 1) ELSE x
           E(k) == IF k = t THEN o ELSE IF k.at # 0 /\ k.lv = lv THEN At(k.block, lv, k.at - 1) ELSE k
           f == [x \in J |-> F(x)]
           e == [k \in K |-> E(k)]
<1>1. q \in Queues(n) /\ U \subseteq Given(n) /\ Tiled(K, n)
  BY DEF Sound
<1>2. a \in Seq(Mem(n)) /\ Len(a) \in Nat /\ Len(a) >= 1 /\ Head(a) = h
  <2>1. a \in Seq(Mem(n)) /\ Len(a) \in Nat
    BY <1>1, LevelQueueOK
  <2> HIDE DEF a
  <2>2. Len(a) # 0 /\ Head(a) = a[1]
    BY <2>1, EmptySeq DEF a
  <2> QED BY <2>1, <2>2
<1>3. Tail(a) \in Seq(Mem(n)) /\ Len(Tail(a)) = Len(a) - 1 /\ \A i \in 1 .. Len(a) - 1 : Tail(a)[i] = a[i + 1]
  <2>1. a # <<>>
    OBVIOUS
  <2> HIDE DEF a
  <2> QED BY <1>2, <2>1, HeadTailProperties
<1>4. /\ r \in [Levels -> Seq(Mem(n))] /\ r[lv] = Tail(a)
      /\ \A l \in Levels : l # lv => r[l] = q[l]
  <2>1. q \in [Levels -> Seq(Mem(n))]
    BY <1>1, LevelQueueOK
  <2> QED BY <1>3, <2>1
<1>5. h \in Mem(n) /\ h.chunk \in 1 .. n /\ h.off \in Nat /\ h.off + LevelSize[lv] <= Chunk
  BY <1>1, <1>2, LevelQueueOK
<1>6. V = U \cup {[block |-> h, lv |-> lv]}
  BY <1>2
<1>7. V \subseteq Given(n)
  <2>1. [block |-> h, lv |-> lv] \in Given(n)
    BY <1>5 DEF Given
  <2> QED BY <1>1, <1>6, <2>1
<1>8. \A i \in 1 .. Len(r[lv]) : i + 1 \in 1 .. Len(a) /\ r[lv][i] = a[i + 1] /\ i # 0 /\ i \in Nat
  <2> HIDE DEF a
  <2> SUFFICES ASSUME NEW i \in 1 .. Len(r[lv])
               PROVE  i + 1 \in 1 .. Len(a) /\ r[lv][i] = a[i + 1] /\ i # 0 /\ i \in Nat
    OBVIOUS
  <2>1. i \in 1 .. Len(a) - 1
    BY <1>3, <1>4
  <2>2. i + 1 \in 1 .. Len(a) /\ i # 0 /\ i \in Nat
    BY <1>2, <2>1
  <2>3. r[lv][i] = a[i + 1]
    BY <1>3, <1>4, <2>1
  <2> QED BY <2>2, <2>3
<1>9. \A i \in 1 .. Len(a) : i # 1 => i - 1 \in 1 .. Len(r[lv]) /\ r[lv][i - 1] = a[i]
  <2> HIDE DEF a
  <2> SUFFICES ASSUME NEW i \in 1 .. Len(a), i # 1 PROVE i - 1 \in 1 .. Len(r[lv]) /\ r[lv][i - 1] = a[i]
    OBVIOUS
  <2>1. i - 1 \in 1 .. Len(a) - 1 /\ i - 1 + 1 = i
    BY <1>2
  <2> QED BY <1>3, <1>4, <2>1
<1>10. r \in Queues(n)
  <2>1. ASSUME NEW l \in Levels, NEW i \in 1 .. Len(r[l]) PROVE r[l][i].off + LevelSize[l] <= Chunk
    <3>1. CASE l = lv
      BY <1>1, <1>8, <3>1, LevelQueueOK
    <3>2. CASE l # lv
      BY <1>1, <1>4, <3>2, LevelQueueOK
    <3> QED BY <3>1, <3>2
  <2> QED BY <1>4, <2>1 DEF Queues
<1>11. t \in K
  BY <1>2, BlocksAre
\* The block was in no other place.
<1>12. o \notin K
  <2>1. o # t
    BY AtIs
  <2>2. LevelSize[lv] \in Nat \ {0}
    BY SizeOK
  <2>3. h.off \in 0 .. Chunk - 1
    BY <1>5, <2>2, ChunkOK
  <2>4. HasUnit(o, h.chunk, h.off) /\ HasUnit(t, h.chunk, h.off)
    BY <1>5, <2>2, HasIs
  <2> HIDE DEF o, t, K
  <2> QED BY <1>1, <1>5, <1>11, <2>1, <2>3, <2>4 DEF Tiled
<1>13. \A b, l, i : At(b, l, i).at = i /\ At(b, l, i).lv = l /\ At(b, l, i).block = b
  BY AtIs
<1>14. o \in J
  <2> DEFINE y == [block |-> h, lv |-> lv]
  <2>1. y \in V /\ y.block = h /\ y.lv = lv
    BY <1>6
  <2> HIDE DEF y
  <2>2. At(y.block, y.lv, 0) \in J
    BY <2>1, BlocksAre
  <2> QED BY <2>1, <2>2
<1>15. \A y \in V : At(y.block, y.lv, 0) = o \/ y \in U
  BY <1>6
<1>16. \A y \in U : y \in V
  BY <1>6
<1> HIDE DEF K, J
<1>17. ASSUME NEW x \in J PROVE F(x) \in K /\ F(x).block = x.block /\ F(x).lv = x.lv /\ E(F(x)) = x
  <2>1. CASE x = o
    <3>1. F(x) = t
      BY <2>1
    <3> HIDE DEF F
    <3> QED BY <1>11, <1>13, <2>1, <3>1
  <2>2. CASE x # o /\ \E y \in V : x = At(y.block, y.lv, 0)
    <3>1. PICK y \in U : x = At(y.block, y.lv, 0)
      BY <1>15, <2>2
    <3>2. x \in K
      BY <3>1, BlocksAre DEF K
    <3>3. x.at = 0 /\ x # t
      BY <1>13, <3>1
    <3> QED BY <2>2, <3>2, <3>3
  <2>3. CASE \E l \in Levels : \E i \in 1 .. Len(r[l]) : x = At(r[l][i], l, i)
    <3>1. PICK l \in Levels : \E i \in 1 .. Len(r[l]) : x = At(r[l][i], l, i)
      BY <2>3
    <3>2. PICK i \in 1 .. Len(r[l]) : x = At(r[l][i], l, i)
      BY <3>1
    <3>3. CASE l = lv
      <4> DEFINE y == At(a[i + 1], lv, i + 1)
      <4>1. i + 1 \in 1 .. Len(a) /\ r[l][i] = a[i + 1] /\ i # 0 /\ i + 1 # 0 /\ i + 1 # 1 /\ i + 1 - 1 = i
        BY <1>8, <3>3
      <4>2. x.at = i /\ x.lv = lv /\ x.block = a[i + 1] /\ x # o
        BY <1>13, <3>2, <3>3, <4>1
      <4>3. F(x) = y /\ y \in K
        <5>1. y \in K
          BY <4>1, BlocksAre DEF K
        <5> QED BY <4>1, <4>2, <5>1
      <4>4. y.at = i + 1 /\ y.lv = lv /\ y.block = a[i + 1] /\ y # t
        BY <1>13, <4>1
      <4>5. E(y) = x
        <5>1. E(y) = At(a[i + 1], lv, i)
          <6> HIDE DEF y
          <6> QED BY <4>1, <4>4
        <5> QED BY <3>2, <3>3, <4>1, <5>1
      <4> HIDE DEF F, E, y
      <4> QED BY <4>2, <4>3, <4>4, <4>5
    <3>4. CASE l # lv
      <4>1. r[l] = q[l]
        BY <1>4, <3>4
      <4>2. x \in K
        BY <3>2, <4>1, BlocksAre DEF K
      <4>3. x.lv # lv
        BY <1>13, <3>2, <3>4
      <4>4. x # o /\ x # t
        BY <1>13, <4>3
      <4> QED BY <4>2, <4>3, <4>4
    <3> QED BY <3>3, <3>4
  <2>4. (\E y \in V : x = At(y.block, y.lv, 0)) \/ \E l \in Levels : \E i \in 1 .. Len(r[l]) : x = At(r[l][i], l, i)
    <3>1. x \in AllBlocks(r, V)
      BY DEF J
    <3> QED BY ONLY <3>1, BlocksAre
  <2> HIDE DEF F, E, o, t
  <2> QED BY <2>1, <2>2, <2>3, <2>4
<1>18. ASSUME NEW k \in K PROVE E(k) \in J /\ F(E(k)) = k
  <2>1. CASE \E y \in U : k = At(y.block, y.lv, 0)
    <3>1. k \in J
      BY <1>16, <2>1, BlocksAre DEF J
    <3>2. k.at = 0 /\ k # t
      BY <1>13, <2>1
    <3>3. k # o
      BY <1>12
    <3> QED BY <3>1, <3>2, <3>3
  <2>2. CASE k = t
    <3>1. E(k) = o
      BY <2>2
    <3> HIDE DEF E
    <3> QED BY <1>14, <2>2, <3>1
  <2>3. CASE k # t /\ \E l \in Levels : \E i \in 1 .. Len(q[l]) : k = At(q[l][i], l, i)
    <3>1. PICK l \in Levels : \E i \in 1 .. Len(q[l]) : k = At(q[l][i], l, i)
      BY <2>3
    <3>2. PICK i \in 1 .. Len(q[l]) : k = At(q[l][i], l, i)
      BY <3>1
    <3>3. CASE l = lv
      <4> DEFINE y == At(a[i], lv, i - 1)
      <4>1. i # 1
        BY <2>3, <3>2, <3>3
      <4>2. i \in 1 .. Len(a)
        BY <3>3
      <4>3. i \in Nat /\ i # 0 /\ i - 1 # 0 /\ i - 1 + 1 = i
        BY <1>2, <4>1, <4>2
      <4>4. i - 1 \in 1 .. Len(r[lv]) /\ r[lv][i - 1] = a[i]
        BY <1>9, <4>1, <4>2
      <4>5. k.at = i /\ k.lv = lv /\ k.block = a[i]
        BY <1>13, <3>2, <3>3
      <4>6. E(k) = y /\ y \in J
        <5>1. y \in J
          BY <4>4, BlocksAre DEF J
        <5> QED BY <2>3, <4>3, <4>5, <5>1
      <4>7. y.at = i - 1 /\ y.lv = lv /\ y.block = a[i] /\ y # o
        BY <1>13, <4>3
      <4>8. F(y) = k
        <5>1. F(y) = At(a[i], lv, i)
          <6> HIDE DEF y
          <6> QED BY <4>3, <4>7
        <5> QED BY <3>2, <3>3, <5>1
      <4> HIDE DEF F, E, y
      <4> QED BY <4>6, <4>8
    <3>4. CASE l # lv
      <4>1. r[l] = q[l]
        BY <1>4, <3>4
      <4>2. k \in J
        BY <3>2, <4>1, BlocksAre DEF J
      <4>3. k.lv # lv
        BY <1>13, <3>2, <3>4
      <4>4. k # o /\ k # t
        BY <1>13, <4>3
      <4> QED BY <4>2, <4>3, <4>4
    <3> QED BY <3>3, <3>4
  <2> QED BY <2>1, <2>2, <2>3, BlocksAre DEF K
<1> HIDE DEF F, E
<1>19. /\ \A x \in J : f[x] \in K /\ f[x].block = x.block /\ f[x].lv = x.lv /\ e[f[x]] = x
       /\ \A k \in K : e[k] \in J /\ f[e[k]] = k
  BY <1>17, <1>18
<1> HIDE DEF f, e
<1>20. Tiled(J, n)
  BY ONLY <1>1, <1>19, Moved
<1> QED BY <1>7, <1>10, <1>20 DEF Sound, J

\* A used block goes to the end of the queue of its level.
LEMMA LevelDeallocOK ==
  ASSUME NEW n \in Nat, NEW q, NEW U, Sound(q, U, n), NEW u \in U,
         NEW r, r = [q EXCEPT ![u.lv] = Append(@, u.block)]
  PROVE  Sound(r, U \ {u}, n)
<1> DEFINE K == AllBlocks(q, U)
           J == AllBlocks(r, U \ {u})
           lv == u.lv
           a == q[lv]
           m == Len(a)
           t == At(u.block, lv, m + 1)
           o == At(u.block, lv, 0)
           F(x) == IF x = t THEN o ELSE x
           E(k) == IF k = o THEN t ELSE k
           f == [x \in J |-> F(x)]
           e == [k \in K |-> E(k)]
<1>1. q \in Queues(n) /\ U \subseteq Given(n) /\ Tiled(K, n)
  BY DEF Sound
<1>2. /\ lv \in Levels /\ u.block \in Mem(n) /\ u.block.off + LevelSize[lv] <= Chunk
      /\ \A y \in U : y = [block |-> y.block, lv |-> y.lv]
  BY <1>1, GivenIs
<1>3. a \in Seq(Mem(n)) /\ m \in Nat /\ q \in [Levels -> Seq(Mem(n))]
  BY <1>1, <1>2, LevelQueueOK
<1> DEFINE d == Append(a, u.block)
<1>4. d \in Seq(Mem(n)) /\ Len(d) = m + 1 /\ d[m + 1] = u.block /\ \A i \in 1 .. m : d[i] = a[i]
  <2> HIDE DEF a
  <2> QED BY <1>2, <1>3, AppendProperties
<1>5. /\ r \in [Levels -> Seq(Mem(n))] /\ r[lv] = d
      /\ \A l \in Levels : l # lv => r[l] = q[l]
  BY <1>2, <1>3, <1>4
<1> HIDE DEF d, m
<1>6. \A i \in 1 .. Len(r[lv]) : (i \in 1 .. m /\ r[lv][i] = a[i]) \/ (i = m + 1 /\ r[lv][i] = u.block)
  <2> HIDE DEF lv, a
  <2> SUFFICES ASSUME NEW i \in 1 .. Len(r[lv])
               PROVE  (i \in 1 .. m /\ r[lv][i] = a[i]) \/ (i = m + 1 /\ r[lv][i] = u.block)
    OBVIOUS
  <2>1. i \in 1 .. m + 1
    BY <1>4, <1>5
  <2>2. i \in 1 .. m \/ i = m + 1
    BY <1>3, <2>1
  <2> QED BY <1>4, <1>5, <2>2
<1>7. m + 1 \in 1 .. Len(r[lv]) /\ r[lv][m + 1] = u.block /\ m + 1 # 0
  BY <1>3, <1>4, <1>5
<1>8. \A i \in 1 .. m : i \in 1 .. Len(r[lv]) /\ r[lv][i] = a[i] /\ i # m + 1
  <2>1. \A i \in 1 .. m : i \in 1 .. m + 1 /\ i # m + 1
    BY <1>3
  <2> QED BY <1>4, <1>5, <2>1
<1>9. \A i \in 1 .. Len(a) : i \in 1 .. m
  BY DEF m
<1>10. r \in Queues(n)
  <2>1. ASSUME NEW l \in Levels, NEW i \in 1 .. Len(r[l]) PROVE r[l][i].off + LevelSize[l] <= Chunk
    <3>1. CASE l = lv
      <4>1. CASE i \in 1 .. m /\ r[lv][i] = a[i]
        BY <1>1, <1>2, <3>1, <4>1, LevelQueueOK DEF m
      <4>2. CASE r[lv][i] = u.block
        BY <1>2, <3>1, <4>2
      <4> QED BY <1>6, <3>1, <4>1, <4>2
    <3>2. CASE l # lv
      BY <1>1, <1>5, <3>2, LevelQueueOK
    <3> QED BY <3>1, <3>2
  <2> QED BY <1>5, <2>1 DEF Queues
<1>11. o \in K
  BY BlocksAre
<1>12. \A b, l, i : At(b, l, i).at = i /\ At(b, l, i).lv = l /\ At(b, l, i).block = b
  BY AtIs
<1>13. t \in J
  <2>1. At(r[lv][m + 1], lv, m + 1) \in J
    <3> HIDE DEF lv
    <3> QED BY <1>2, <1>7, BlocksAre
  <2> QED BY <1>7, <2>1
<1>14. o # t
  BY <1>7, <1>12
<1>15. \A y \in U : At(y.block, y.lv, 0) = o => y = u
  <2> SUFFICES ASSUME NEW y \in U, At(y.block, y.lv, 0) = o PROVE y = u
    OBVIOUS
  <2>1. y.block = u.block /\ y.lv = u.lv
    BY AtIs
  <2> QED BY <1>2, <2>1
<1> HIDE DEF K, J
<1>16. ASSUME NEW x \in J PROVE F(x) \in K /\ F(x).block = x.block /\ F(x).lv = x.lv /\ E(F(x)) = x
  <2>1. CASE x = t
    BY <1>11, <1>12, <2>1
  <2>2. CASE x # t /\ \E y \in U \ {u} : x = At(y.block, y.lv, 0)
    <3>1. PICK y \in U \ {u} : x = At(y.block, y.lv, 0)
      BY <2>2
    <3>2. x \in K /\ x # o
      BY <1>15, <3>1, BlocksAre DEF K
    <3> QED BY <2>2, <3>2
  <2>3. CASE x # t /\ \E l \in Levels : \E i \in 1 .. Len(r[l]) : x = At(r[l][i], l, i)
    <3>1. PICK l \in Levels : \E i \in 1 .. Len(r[l]) : x = At(r[l][i], l, i)
      BY <2>3
    <3>2. PICK i \in 1 .. Len(r[l]) : x = At(r[l][i], l, i)
      BY <3>1
    <3>3. r[l][i] = q[l][i] /\ i \in 1 .. Len(q[l])
      <4>1. CASE l = lv
        <5>1. i \in 1 .. m /\ r[lv][i] = a[i]
          BY <1>6, <2>3, <3>2, <4>1
        <5> QED BY <4>1, <5>1 DEF m
      <4>2. CASE l # lv
        BY <1>5, <4>2
      <4> QED BY <4>1, <4>2
    <3>4. x \in K
      BY <3>2, <3>3, BlocksAre DEF K
    <3>5. Len(q[l]) \in Nat
      BY <1>1, LevelQueueOK
    <3>6. x.at # 0
      BY <1>12, <3>2, <3>3, <3>5
    <3>7. x # o
      BY <1>12, <3>6
    <3> QED BY <2>3, <3>4, <3>7
  <2>4. (\E y \in U \ {u} : x = At(y.block, y.lv, 0)) \/ \E l \in Levels : \E i \in 1 .. Len(r[l]) : x = At(r[l][i], l, i)
    <3>1. x \in AllBlocks(r, U \ {u})
      BY DEF J
    <3> QED BY ONLY <3>1, BlocksAre
  <2> HIDE DEF F, E, o, t
  <2> QED BY <2>1, <2>2, <2>3, <2>4
<1>17. ASSUME NEW k \in K PROVE E(k) \in J /\ F(E(k)) = k
  <2>1. CASE k = o
    BY <1>13, <2>1
  <2>2. CASE k # o /\ \E y \in U : k = At(y.block, y.lv, 0)
    <3>1. PICK y \in U : k = At(y.block, y.lv, 0)
      BY <2>2
    <3>2. y \in U \ {u}
      BY <2>2, <3>1
    <3>3. k \in J
      BY <3>1, <3>2, BlocksAre DEF J
    <3>4. k # t
      BY <1>7, <1>12, <3>1
    <3> QED BY <2>2, <3>3, <3>4
  <2>3. CASE k # o /\ \E l \in Levels : \E i \in 1 .. Len(q[l]) : k = At(q[l][i], l, i)
    <3>1. PICK l \in Levels : \E i \in 1 .. Len(q[l]) : k = At(q[l][i], l, i)
      BY <2>3
    <3>2. PICK i \in 1 .. Len(q[l]) : k = At(q[l][i], l, i)
      BY <3>1
    <3>3. r[l][i] = q[l][i] /\ i \in 1 .. Len(r[l]) /\ (l = lv => i # m + 1)
      <4>1. CASE l = lv
        <5>1. i \in 1 .. m
          BY <1>9, <4>1
        <5> QED BY <1>8, <4>1, <5>1
      <4>2. CASE l # lv
        BY <1>5, <4>2
      <4> QED BY <4>1, <4>2
    <3>4. k \in J
      BY <3>2, <3>3, BlocksAre DEF J
    <3>5. k # t
      BY <1>12, <3>2, <3>3
    <3> QED BY <2>3, <3>4, <3>5
  <2> QED BY <2>1, <2>2, <2>3, BlocksAre DEF K
<1> HIDE DEF F, E
<1>18. /\ \A x \in J : f[x] \in K /\ f[x].block = x.block /\ f[x].lv = x.lv /\ e[f[x]] = x
       /\ \A k \in K : e[k] \in J /\ f[e[k]] = k
  BY <1>16, <1>17
<1> HIDE DEF f, e
<1>19. Tiled(J, n)
  BY ONLY <1>1, <1>18, Moved
<1>20. U \ {u} \subseteq Given(n)
  BY <1>1
<1> QED BY <1>10, <1>19, <1>20 DEF Sound, J

-----------------------------------------------------------------------------
(* The pool                                                                *)

\* Every unit of the chunks that were taken is in one block.
LevelInv == chunks \in Nat /\ Sound(blocks, used, chunks)

\* The pool begins with one chunk.
LEMMA LevelInvInit == LevelInit => LevelInv
<1> SUFFICES ASSUME LevelInit PROVE LevelInv
  OBVIOUS
<1> DEFINE q == [lv \in Levels |-> <<>>]
<1>1. q \in Queues(0)
  <2>1. \A lv \in Levels : q[lv] = <<>>
    OBVIOUS
  <2>2. <<>> \in Seq(Mem(0)) /\ Len(<<>>) = 0
    OBVIOUS
  <2>3. q \in [Levels -> Seq(Mem(0))]
    BY <2>2
  <2>4. \A lv \in Levels : \A i \in 1 .. Len(q[lv]) : FALSE
    BY <2>1, <2>2
  <2> HIDE DEF q
  <2> QED BY <2>3, <2>4 DEF Queues
<1> HIDE DEF q
<1>2. Tiled(AllBlocks(q, {}), 0)
  BY DEF Tiled
<1>3. Sound(q, {}, 0)
  BY <1>1, <1>2 DEF Sound
<1>4. Sound(DoubleLevel(q, 0 + 1), {}, 0 + 1)
  BY <1>3, LevelDoubleOK
<1>5. chunks = 0 + 1 /\ used = {} /\ blocks = DoubleLevel(q, 0 + 1)
  BY DEF LevelInit, q
<1> QED BY <1>4, <1>5 DEF LevelInv

\* Alloc, whether the level has blocks, gets some from above, or memory is taken.
LEMMA LevelAllocStep ==
  ASSUME LevelInv, NEW lv \in Levels, AllocLevel(lv)
  PROVE  LevelInv'
<1> DEFINE q == IF blocks[lv] = <<>> THEN AppendLevel(blocks, lv) ELSE blocks
           new == blocks[lv] = <<>> /\ \A l \in Levels : l > lv => blocks[l] = <<>>
<1>1. chunks \in Nat /\ Sound(blocks, used, chunks)
  BY DEF LevelInv
<1>2. /\ chunks' = IF new THEN chunks + 1 ELSE chunks
      /\ blocks' = [q EXCEPT ![lv] = Tail(@)]
      /\ used' = used \cup {[block |-> Head(q[lv]), lv |-> lv]}
  BY DEF AllocLevel
<1>3. chunks' \in Nat /\ Sound(q, used, chunks') /\ q[lv] # <<>>
  <2>1. CASE blocks[lv] = <<>>
    <3>1. chunks' = Grown(blocks, lv, chunks)
      BY <1>2, <2>1 DEF Grown
    <3>2. q = AppendLevel(blocks, lv)
      BY <2>1
    <3>3. Grown(blocks, lv, chunks) \in Nat
      BY <1>1 DEF Grown
    <3> HIDE DEF q
    <3> QED BY <1>1, <3>1, <3>2, <3>3, AppendOK
  <2>2. CASE blocks[lv] # <<>>
    <3>1. chunks' = chunks /\ q = blocks
      BY <1>2, <2>2
    <3> HIDE DEF q
    <3> QED BY <1>1, <2>2, <3>1
  <2> QED BY <2>1, <2>2
<1> HIDE DEF q
<1>4. Sound(blocks', used', chunks')
  BY ONLY <1>2, <1>3, LevelAllocOK
<1> QED BY <1>3, <1>4 DEF LevelInv

\* Dealloc.
LEMMA LevelDeallocStep ==
  ASSUME LevelInv, NEW u \in used, DeallocLevel(u)
  PROVE  LevelInv'
<1>1. chunks \in Nat /\ Sound(blocks, used, chunks)
  BY DEF LevelInv
<1>2. chunks' = chunks /\ used' = used \ {u} /\ blocks' = [blocks EXCEPT ![u.lv] = Append(@, u.block)]
  BY DEF DeallocLevel
<1>3. Sound(blocks', used', chunks)
  BY <1>1, <1>2, LevelDeallocOK
<1> QED BY <1>1, <1>2, <1>3 DEF LevelInv

\* The blocks of CPoolLevel, free and given out, split the memory it took between them.
THEOREM LevelInvariant == LevelSpec => []LevelInv
<1>1. LevelInv /\ [LevelNext]_levelVars => LevelInv'
  <2> SUFFICES ASSUME LevelInv, [LevelNext]_levelVars PROVE LevelInv'
    OBVIOUS
  <2>1. CASE \E lv \in Levels : AllocLevel(lv)
    BY <2>1, LevelAllocStep
  <2>2. CASE \E u \in used : DeallocLevel(u)
    BY <2>2, LevelDeallocStep
  <2>3. CASE UNCHANGED levelVars
    BY <2>3 DEF LevelInv, levelVars
  <2> QED BY <2>1, <2>2, <2>3 DEF LevelNext
<1> QED BY <1>1, LevelInvInit, PTL DEF LevelSpec

\* One block for a unit is a set of one.
LEMMA LevelInvOneBlock == LevelInv => OneBlock
<1> SUFFICES ASSUME LevelInv, NEW c \in 1 .. chunks, NEW n \in 0 .. MaxLvCnt * LevelSize[MaxLevel] - 1
             PROVE  Cardinality({x \in AllBlocks(blocks, used) : HasUnit(x, c, n)}) = 1
  BY DEF OneBlock
<1> DEFINE K == AllBlocks(blocks, used)
           B == {x \in K : HasUnit(x, c, n)}
<1>1. Tiled(K, chunks) /\ n \in 0 .. Chunk - 1
  BY DEF LevelInv, Sound, Chunk
<1> HIDE DEF K
<1>2. PICK x \in K : HasUnit(x, c, n) /\ \A y \in K : HasUnit(y, c, n) => y = x
  BY <1>1 DEF Tiled
<1>3. B = {x}
  BY <1>2
<1>4. Cardinality(B) = 1
  BY <1>3, FS_Singleton
<1> QED BY <1>4 DEF K

\* No two blocks of CPoolLevel overlap and no memory of it is lost, whatever is asked for and
\* given back, and whatever the split of _Split and _Append.
THEOREM LevelOneBlock == LevelSpec => []OneBlock
BY LevelInvariant, LevelInvOneBlock, PTL
=============================================================================
