------------------------------ MODULE PagePool ------------------------------
(***************************************************************************)
(* CPoolPage over SafeQueue: cells of one size for objects that one thread *)
(* makes and another deletes, such as the packets. Each operation of the   *)
(* queue is atomic, Alloc and Double are not.                              *)
(***************************************************************************)
EXTENDS Integers, Sequences, FiniteSets, SequencesExt

CONSTANTS
  PoolThreads,  \* threads that use the pool
  PageCnt,      \* m_pageCnt
  MaxPages,     \* bound: pages malloc has memory for
  NULL

ASSUME PagePoolAssumption ==
  /\ PageCnt \in Nat \ {0} /\ MaxPages \in Nat \ {0}
  /\ NULL \notin [page : Nat, i : Nat]

VARIABLES
  pages,  \* how many pages there are
  cells,  \* m_queue
  inUse,  \* history: the cells that were given out
  at,     \* where each thread is in Alloc, and in which page it makes cells
  taken   \* history: what others took, up to PageCnt, since a thread found the
          \* queue empty

pageVars == <<pages, cells, inUse, at, taken>>

Cell(page, i) == [page |-> page, i |-> i]
Elsewhere == [pc |-> "out", page |-> 0, n |-> 0, ret |-> NULL]

PageInit ==
  /\ pages = 1 /\ cells = [i \in 1 .. PageCnt |-> Cell(1, i)] /\ inUse = {}
  /\ at = [t \in PoolThreads |-> Elsewhere]
  /\ taken = [t \in PoolThreads |-> 0]

\* SafeQueue::pop for thread t.
TakeCell(t) ==
  /\ cells' = Tail(cells) /\ inUse' = inUse \cup {Head(cells)}
  /\ taken' = [u \in PoolThreads |->
       IF u = t THEN 0
       ELSE IF at[u].pc \in {"double", "pop"} /\ taken[u] < PageCnt THEN taken[u] + 1
       ELSE taken[u]]

Got(t, ret) == at' = [at EXCEPT ![t] = [Elsewhere EXCEPT !.pc = "got", !.ret = ret]]

\* Alloc: a cell, or Double. Bound: malloc finds memory for MaxPages and is asked for no more.
Alloc(t) ==
  /\ at[t].pc = "out"
  /\ \/ cells # <<>> /\ TakeCell(t) /\ UNCHANGED <<pages, at>>
     \/ /\ cells = <<>> /\ pages < MaxPages
        /\ pages' = pages + 1
        /\ at' = [at EXCEPT ![t] = [Elsewhere EXCEPT !.pc = "double", !.page = pages + 1]]
        /\ taken' = [taken EXCEPT ![t] = 0]
        /\ UNCHANGED <<cells, inUse>>

\* Fault: Double is a cell short.
PushShort(t) ==
  /\ at[t].pc = "double"
  /\ cells' = Append(cells, Cell(at[t].page, at[t].n + 1))
  /\ at' = [at EXCEPT ![t].n = @ + 1,
                      ![t].pc = IF at[t].n + 2 < PageCnt THEN "double" ELSE "pop"]
  /\ UNCHANGED <<pages, inUse, taken>>

\* Double pushes the cells of its page one by one.
Push(t) ==
  /\ at[t].pc = "double"
  /\ cells' = Append(cells, Cell(at[t].page, at[t].n + 1))
  /\ at' = [at EXCEPT ![t].n = @ + 1,
                      ![t].pc = IF at[t].n + 1 < PageCnt THEN "double" ELSE "pop"]
  /\ UNCHANGED <<pages, inUse, taken>>

\* The second pop of Alloc, whose failure nobody looks at.
PopAgain(t) ==
  /\ at[t].pc = "pop"
  /\ IF cells = <<>> THEN Got(t, NULL) /\ UNCHANGED <<cells, inUse, taken>>
     ELSE TakeCell(t) /\ Got(t, Head(cells))
  /\ UNCHANGED pages

AllocReturns(t) ==
  /\ at[t].pc = "got"
  /\ at' = [at EXCEPT ![t] = Elsewhere] /\ taken' = [taken EXCEPT ![t] = 0]
  /\ UNCHANGED <<pages, cells, inUse>>

Dealloc(c) ==
  /\ cells' = Append(cells, c) /\ inUse' = inUse \ {c}
  /\ UNCHANGED <<pages, at, taken>>

PageNext ==
  \/ \E t \in PoolThreads : Alloc(t) \/ Push(t) \/ PopAgain(t) \/ AllocReturns(t)
  \/ \E c \in inUse : Dealloc(c)

PageSpec == PageInit /\ [][PageNext]_pageVars

-----------------------------------------------------------------------------
(* Properties                                                              *)

\* No cell is given out twice at a time, and none is lost, however the threads that
\* find the queue empty and double it meet; Alloc returns NULL after it has doubled the
\* queue only if others have taken as many cells as it made.
CellsOnce ==
  /\ Len(cells) = Cardinality(ToSet(cells)) /\ ToSet(cells) \cap inUse = {}
  /\ \A p \in 1 .. pages, i \in 1 .. PageCnt :
       Cell(p, i) \in ToSet(cells) \cup inUse
         \/ \E t \in PoolThreads : at[t].pc = "double" /\ at[t].page = p /\ at[t].n < i
  /\ \A t \in PoolThreads : at[t].pc = "got" /\ at[t].ret = NULL => taken[t] >= PageCnt
=============================================================================
