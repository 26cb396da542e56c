------------------------------ MODULE RpcPack ------------------------------
(***************************************************************************)
(* A call and its answer through the packs of two RpcQueues: the caller    *)
(* writes every call into its m_SendBuffer, the callee every answer into   *)
(* its m_BackBuffer, which begins with the head of the call. Handlers read *)
(* a call as it was written and answer what they read, at their end or     *)
(* earlier; some write more behind an early answer, some answer nothing.   *)
(***************************************************************************)
EXTENDS PackOps, FiniteSets

CONSTANTS
  OpCodes,    \* the calls: numbers, not 0
  Bodies,     \* Bodies[op]: the bodies a call may have
  MaxCalls    \* bound: calls made

ASSUME RpcPackAssumption ==
  /\ OpCodes \subseteq Nat \ {0} /\ MaxCalls \in Nat
  /\ \A op \in OpCodes : \A items \in Bodies[op] : items \in Seq(Items)

VARIABLES
  sendBuf,   \* m_SendBuffer of the caller
  autoIdx,   \* _auto_req_idx
  response,  \* m_response of the caller: keys, and what they should be answered
  toCallee,  \* calls on the way, with the items they were written from
  pc,        \* "idle", or what the handler does next
  answer,    \* what the handler has read, and means to answer
  backBuf,   \* m_BackBuffer of the callee
  toCaller,  \* answers on the way
  wrong      \* history: an answer was not that of its call

packVars == <<sendBuf, autoIdx, response, toCallee, pc, answer, backBuf, toCaller, wrong>>

PackInit ==
  /\ sendBuf = NewPack /\ backBuf = NewPack
  /\ autoIdx = 0 /\ response = {} /\ toCallee = <<>> /\ toCaller = <<>>
  /\ pc = "idle" /\ answer = <<>> /\ wrong = FALSE

Values(items) == [i \in 1 .. Len(items) |-> items[i].v]

\* _CallRpc, with the response registered before anything is answered.
CallPack(op, items) ==
  /\ autoIdx < MaxCalls
  /\ autoIdx' = autoIdx + 1
  /\ LET p == WriteItems(SetReqIdx(SetOpCode(sendBuf, op), autoIdx'), items)
     IN  /\ toCallee' = Append(toCallee, [bytes |-> p.store, items |-> items])
         /\ sendBuf' = ClearPack(p)
         /\ response' = response \cup {[key |-> GetReqKey(p), items |-> items]}
  /\ UNCHANGED <<pc, answer, backBuf, toCaller, wrong>>

\* Insert and _Handle: the handler reads the pack.
HandlePack ==
  /\ pc = "idle" /\ toCallee # <<>>
  /\ LET p == PackOf(Head(toCallee).bytes)
         items == Head(toCallee).items
         x == ReadItems(p, items)
     IN  /\ backBuf' = ResetHead(backBuf, p)
         /\ answer' = [i \in 1 .. Len(items) |-> [items[i] EXCEPT !.v = x.vs[i]]]
  /\ toCallee' = Tail(toCallee) /\ pc' = "read"
  /\ UNCHANGED <<sendBuf, autoIdx, response, toCaller, wrong>>

HandlerWrites ==
  /\ pc = "read" /\ pc' = "written"
  /\ backBuf' = WriteItems(backBuf, answer)
  /\ UNCHANGED <<sendBuf, autoIdx, response, toCallee, answer, toCaller, wrong>>

\* SendBackBuffer: nothing is sent without a body.
SendBackBuffer ==
  /\ toCaller' = IF BodySize(backBuf) > 0
                 THEN Append(toCaller, backBuf.store) ELSE toCaller
  /\ backBuf' = ClearPack(backBuf)

HandlerAnswersEarly ==
  /\ pc = "written" /\ pc' = "early"
  /\ SendBackBuffer
  /\ UNCHANGED <<sendBuf, autoIdx, response, toCallee, answer, wrong>>

HandlerWritesMore ==
  /\ pc = "early" /\ pc' = "more"
  /\ backBuf' = WriteItem(backBuf, [str |-> FALSE, n |-> 1, v |-> 1])
  /\ UNCHANGED <<sendBuf, autoIdx, response, toCallee, answer, toCaller, wrong>>

\* The handler returns: its answer is sent if it has not been.
HandleReturns ==
  /\ pc \in {"read", "written", "early", "more"} /\ pc' = "idle" /\ answer' = <<>>
  /\ IF OpCode(backBuf) # 0 THEN SendBackBuffer ELSE UNCHANGED <<backBuf, toCaller>>
  /\ UNCHANGED <<sendBuf, autoIdx, response, toCallee, wrong>>

\* _Handle of an answer: the callback of its key reads it.
Answered ==
  /\ toCaller # <<>> /\ toCaller' = Tail(toCaller)
  /\ LET p == PackOf(Head(toCaller))
         found == {x \in response : x.key = GetReqKey(p)}
     IN  /\ response' = response \ found
         /\ wrong' = \/ wrong
                     \/ Cardinality(found) # 1
                     \/ \E x \in found : LET y == ReadItems(p, x.items)
                                         IN  y.vs # Values(x.items) \/ y.p.r # y.p.w
  /\ UNCHANGED <<sendBuf, autoIdx, toCallee, pc, answer, backBuf>>

PackNext ==
  \/ \E op \in OpCodes : \E items \in Bodies[op] : CallPack(op, items)
  \/ HandlePack \/ HandlerWrites \/ HandlerAnswersEarly \/ HandlerWritesMore \/ HandleReturns
  \/ Answered

PackSpec == PackInit /\ [][PackNext]_packVars

-----------------------------------------------------------------------------
(* Properties                                                              *)

\* A call is answered once at most, by the callback that was registered for it, and the
\* answer holds what was written for it and no more, though all calls and all answers
\* go through one buffer each, whatever a handler wrote into it before.
AnswersMatch == ~wrong /\ OpCode(sendBuf) = 0
=============================================================================
