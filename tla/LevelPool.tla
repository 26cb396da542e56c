----------------------------- MODULE LevelPool -----------------------------
(***************************************************************************)
(* CPoolLevel: blocks of MinBlock * 2 ^ level bytes. A level without free  *)
(* blocks gets the halves of blocks of the level above; the highest level  *)
(* gets new memory. Sizes and offsets are in units of MinBlock.            *)
(***************************************************************************)
EXTENDS Integers, Sequences, FiniteSets, SequencesExt, FiniteSetsExt

CONSTANTS
  MaxLevel,    \* MaxLevel
  MaxLvCnt,    \* m_MaxLvCnt
  MaxChunks    \* bound: how often memory is taken from the system

ASSUME LevelPoolAssumption ==
  MaxLevel \in Nat /\ MaxLvCnt \in Nat \ {0} /\ MaxChunks \in Nat \ {0}

VARIABLES
  chunks,  \* how often memory has been taken
  blocks,  \* m_queue: the free blocks of each level
  used     \* history: the blocks that were given out

levelVars == <<chunks, blocks, used>>

Levels == 0 .. MaxLevel
LevelSize[lv \in Levels] == IF lv = 0 THEN 1 ELSE 2 * LevelSize[lv - 1]
Block(chunk, off) == [chunk |-> chunk, off |-> off]

\* _Double of the highest level.
DoubleLevel(q, chunk) ==
  [q EXCEPT ![MaxLevel] =
     @ \o [i \in 1 .. MaxLvCnt |-> Block(chunk, (i - 1) * LevelSize[MaxLevel])]]

LevelInit ==
  /\ chunks = 1
  /\ blocks = DoubleLevel([lv \in Levels |-> <<>>], 1)
  /\ used = {}

\* Fault: the second half begins where the block ends.
HalvesApart(b, lv) == <<b, Block(b.chunk, b.off + LevelSize[lv])>>

Halves(b, lv) == <<b, Block(b.chunk, b.off + LevelSize[lv - 1])>>

\* A pass of _Split's loop: the halves of a block of lv go to the level below.
SplitBlock(q, lv) == [q EXCEPT ![lv] = Tail(@), ![lv - 1] = @ \o Halves(Head(q[lv]), lv)]

\* _Split, where lv has blocks: half of them, and one.
Split(q, lv) ==
  LET n == Len(q[lv]) \div 2 + 1
      s[k \in 0 .. n] == IF k = 0 THEN q ELSE SplitBlock(s[k - 1], lv)
  IN  s[n]

\* _Append: the next level that has blocks splits, then each below it down to lv.
AppendLevel(q, lv) ==
  LET above == {l \in Levels : l > lv /\ q[l] # <<>>}
      top   == IF above = {} THEN MaxLevel ELSE Min(above)
      full  == IF above = {} THEN DoubleLevel(q, chunks + 1) ELSE q
      s[k \in 0 .. top - lv] == IF k = 0 THEN full ELSE Split(s[k - 1], top + 1 - k)
  IN  s[top - lv]

AllocLevel(lv) ==
  LET q == IF blocks[lv] = <<>> THEN AppendLevel(blocks, lv) ELSE blocks
      new == blocks[lv] = <<>> /\ \A l \in Levels : l > lv => blocks[l] = <<>>
  IN  /\ new => chunks < MaxChunks
      /\ chunks' = IF new THEN chunks + 1 ELSE chunks
      /\ blocks' = [q EXCEPT ![lv] = Tail(@)]
      /\ used' = used \cup {[block |-> Head(q[lv]), lv |-> lv]}

\* Dealloc, with the size the block was asked for with.
DeallocLevel(u) ==
  /\ blocks' = [blocks EXCEPT ![u.lv] = Append(@, u.block)]
  /\ used' = used \ {u}
  /\ UNCHANGED chunks

LevelNext == (\E lv \in Levels : AllocLevel(lv)) \/ (\E u \in used : DeallocLevel(u))

LevelSpec == LevelInit /\ [][LevelNext]_levelVars

-----------------------------------------------------------------------------
(* Properties                                                              *)

\* The blocks, with their places in the queues q; those of u are in none.
AllBlocks(q, u) ==
  {[block |-> x.block, lv |-> x.lv, at |-> 0] : x \in u} \cup
  UNION {{[block |-> q[lv][i], lv |-> lv, at |-> i] : i \in 1 .. Len(q[lv])} : lv \in Levels}

HasUnit(x, c, n) ==
  x.block.chunk = c /\ x.block.off <= n /\ n < x.block.off + LevelSize[x.lv]

\* Every unit of the memory that was taken is in one block, free or used, of one
\* level: no two blocks overlap, and none is lost.
OneBlock ==
  \A c \in 1 .. chunks : \A n \in 0 .. MaxLvCnt * LevelSize[MaxLevel] - 1 :
    Cardinality({x \in AllBlocks(blocks, used) : HasUnit(x, c, n)}) = 1
=============================================================================
