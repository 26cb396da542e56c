----------------------------- MODULE IndexPool -----------------------------
(***************************************************************************)
(* CPoolIndex with Pool_Index_UniqueID32: the cells of a class, used first *)
(* in first out, doubled when none is left, and ids by which the rest of   *)
(* the server keeps objects that may be gone: a counter of 16 bits and the *)
(* number of the cell.                                                     *)
(***************************************************************************)
EXTENDS Integers, Sequences, FiniteSets, SequencesExt

CONSTANTS
  IndexNum,  \* the cells the pool begins with
  MaxCnt,    \* bound: how many cells the pool may come to have
  AutoMod,   \* 2 ^ 16, the values of s_auto_id
  VOID,      \* VOID_POOL_ID
  Garbage    \* what malloc leaves in a cell: neither VOID nor an id of an object

ASSUME IndexPoolAssumption ==
  /\ IndexNum \in Nat \ {0} /\ MaxCnt \in Nat /\ IndexNum <= MaxCnt /\ AutoMod \in Nat \ {0}
  /\ VOID \notin Nat /\ Garbage \notin Nat \cup {VOID}

VARIABLES
  m_cnt,    \* m_cnt
  freeIdx,  \* m_queue
  m_index,  \* m_index of the object in a cell
  uniqueId, \* m_unique_id of the object in a cell
  autoId,   \* s_auto_id
  given     \* history: the last AutoMod ids, and whether their objects are gone

indexVars == <<m_cnt, freeIdx, m_index, uniqueId, autoId, given>>

Cells == 0 .. MaxCnt - 1
Id(auto, idx) == [auto |-> auto, idx |-> idx]

IndexInit ==
  /\ m_cnt = IndexNum
  /\ freeIdx = [i \in 1 .. IndexNum |-> i - 1]
  /\ m_index = [c \in Cells |-> Garbage]
  /\ uniqueId = [c \in Cells |-> Garbage]
  /\ autoId = 0 /\ given = <<>>

\* Double: as many cells again, behind those that are free.
Double(queue) == queue \o [i \in 1 .. m_cnt |-> m_cnt + i - 1]

CreateUniqueId(idx) == Id((autoId + 1) % AutoMod, idx)

\* operator new and the constructor.
NewObject ==
  /\ freeIdx # <<>> \/ 2 * m_cnt <= MaxCnt
  /\ LET queue == IF freeIdx = <<>> THEN Double(freeIdx) ELSE freeIdx
         idx   == Head(queue)
         id    == CreateUniqueId(idx)
         old   == IF Len(given) < AutoMod THEN given ELSE Tail(given)
     IN  /\ freeIdx' = Tail(queue)
         /\ m_cnt' = IF freeIdx = <<>> THEN 2 * m_cnt ELSE m_cnt
         /\ m_index' = [m_index EXCEPT ![idx] = idx]
         /\ uniqueId' = [uniqueId EXCEPT ![idx] = id]
         /\ autoId' = id.auto
         /\ given' = Append(old, [id |-> id, cell |-> idx, gone |-> FALSE])

Live(c) == c < m_cnt /\ m_index[c] = c

\* operator delete; the id stays in the cell.
DeleteObject(c) ==
  /\ Live(c)
  /\ freeIdx' = Append(freeIdx, m_index[c])
  /\ m_index' = [m_index EXCEPT ![c] = VOID]
  /\ given' = [i \in 1 .. Len(given) |->
                 [given[i] EXCEPT !.gone = @ \/ given[i].cell = c]]
  /\ UNCHANGED <<m_cnt, uniqueId, autoId>>

\* Fault: does not see that the object is gone.
GetByIdxAny(idx) == IF idx >= m_cnt THEN VOID ELSE idx

\* GetByIdx: the cell, or VOID for NULL.
GetByIdx(idx) == IF idx >= m_cnt \/ m_index[idx] = VOID THEN VOID ELSE idx

FindByUniqueId(id) ==
  LET c == GetByIdx(id.idx)
  IN  IF c # VOID /\ uniqueId[c] = id THEN c ELSE VOID

IndexNext == NewObject \/ \E c \in Cells : DeleteObject(c)

IndexSpec == IndexInit /\ [][IndexNext]_indexVars

-----------------------------------------------------------------------------
(* Properties                                                              *)

\* An id finds the object it was given to, and nothing when that is gone, whoever
\* has its cell now; ids that are kept longer, for AutoMod new objects, may find
\* another object.
FindsOwn ==
  \A i \in 1 .. Len(given) :
    FindByUniqueId(given[i].id) = IF given[i].gone THEN VOID ELSE given[i].cell
=============================================================================
